---- MODULE Spec2Model ----
(***************************************************************************)
(* Ticket worker of cerberus-core (src/worker/ticket.py): the timeout      *)
(* handler, its conformance gate, IP resolution, the timeout action        *)
(* applier and the closing side effects, run by concurrent workers         *)
(* against one database and one rq-scheduler.                              *)
(***************************************************************************)
EXTENDS Integers, Sequences, FiniteSets, TLC

\* ------------------------------------------------------------------ bounds
MaxRuns == 2
MaxItems == 2
MaxCancels == 2
MaxSweeps == 2

\* --------------------------------------------------------------- constants
None == "None"

ASYNC_JOB_TO_CANCEL ==
  {"action.apply_if_no_reply", "action.apply_then_close", "action.apply_action",
   "ticket.timeout"}

WAITING == "WaitingAnswer"
PAUSED == "Paused"
ALARM == "Alarm"

STATUS_SEQUENCE == <<WAITING, ALARM, WAITING>>

\* the seconds of a day: timedelta.seconds stays below it
DaySeconds == 86400

Statuses ==
  {"Open", "Reopened", WAITING, ALARM, PAUSED, "Closed", "Answered", "ActionError"}

Categories == {"Phishing", "Copyright", "Illegal", "Spam"}

\* str.lower() on the status and category names the database holds
Lower(s) ==
  CASE s = "Open" -> "open"
    [] s = "Reopened" -> "reopened"
    [] s = "WaitingAnswer" -> "waitinganswer"
    [] s = "Alarm" -> "alarm"
    [] s = "Paused" -> "paused"
    [] s = "Closed" -> "closed"
    [] s = "Answered" -> "answered"
    [] s = "ActionError" -> "actionerror"
    [] s = "Phishing" -> "phishing"
    [] s = "Copyright" -> "copyright"
    [] s = "Illegal" -> "illegal"
    [] s = "Spam" -> "spam"
    [] OTHER -> s

Workers == {"w1", "w2"}
TicketIds == {1}
Addrs == {"A", "B"}
BOT_USER == "abuse.robot"

ItemTypes == {"IP", "FQDN", "URL"}
ItemKinds == [itemType : ItemTypes, ip : Addrs \cup {None}, fqdnResolved : Addrs \cup {None}]
ReportIdx == 1..2

Item(ty, ip, fq) == [itemType |-> ty, ip |-> ip, fqdnResolved |-> fq]

\* reports of a ticket used by the timeout runs: a sequence of reports, each a set of items
ReportConfigs ==
  { <<>>,
    << {Item("IP", "A", None)} >>,
    << {Item("IP", "A", None)}, {Item("URL", None, "A"), Item("FQDN", None, None)} >>,
    << {Item("IP", "A", None)}, {Item("FQDN", None, "B")} >> }

\* rows of ContactedProvider for a ticket (provider emails, with repeats)
ContactedConfigs == { <<"p1@isp", "p1@isp", "p2@isp">> }

DefendantEmail(d) == "d1@customer"
DefendantLang(d) == "FR"

VARIABLES
  tickets,       \* Ticket rows: id -> record of the concrete fields
  ticketJobs,    \* ticket.jobs (many-to-many): ticket id -> set of ServiceActionJob ids
  ticketTags,    \* ticket.tags: ticket id -> set of tag names
  comments,      \* TicketComment rows, in creation order
  saJobs,        \* ServiceActionJob rows
  scheduler,     \* ids of the jobs pending in the rq-scheduler
  rqJobs,        \* rq job hashes: job id -> record
  emails,        \* what common.send_email was asked to send, in order
  audit,         \* database.log_action_on_ticket entries, in order
  reportItems,   \* ticket id -> sequence of reports (sets of report items)
  contacted,     \* ticket id -> sequence of contacted provider emails
  itemsDown,     \* ticket id -> answer of phishing.is_all_down_for_ticket
  policy,        \* answer of ActionServiceBase.get_action_for_timeout
  pc,            \* worker -> position in timeout()
  local,         \* worker -> local variables of its timeout() run
  runs,          \* number of timeout() invocations so far
  clock,         \* time(), in seconds
  users,         \* User rows: username -> last login and role configuration
  ticketHistory, \* ticket id -> ticketStatus of its ChangeStatus entries, newest first
  cancelCalls,   \* calls of cancel_rq_scheduler_jobs and the ids each gave scheduler.cancel
  sweepLog,      \* the periodic sweeps run so far, in order
  entryLog,      \* calls of the other entry points and how each ended
  rules          \* the 'phishing_up' BusinessRules config and the variables' values

vars == <<tickets, ticketJobs, ticketTags, comments, saJobs, scheduler, rqJobs,
          emails, audit, reportItems, contacted, itemsDown, policy, pc, local, runs,
          clock, users, ticketHistory, cancelCalls, sweepLog, entryLog, rules>>

dbvars == <<tickets, ticketJobs, ticketTags, comments, saJobs, scheduler, rqJobs,
            emails, audit>>
envvars == <<reportItems, contacted, itemsDown, policy>>
sweepvars == <<clock, users, ticketHistory, cancelCalls, sweepLog, entryLog, rules>>

EmptyRow ==
  [defendant |-> None, service |-> None, status |-> "Open", category |-> "Spam",
   treatedBy |-> None, action |-> None, resolution |-> None]

EmptyLocal ==
  [tid |-> 1, run |-> 0, ticket |-> EmptyRow, gate |-> "unset", action |-> None,
   ip |-> None, job |-> 0, reason |-> None, blocked |-> FALSE, now |-> 0]

TicketRows ==
  [defendant : {None, "d1"}, service : {None, "s1"}, status : Statuses,
   category : Categories, treatedBy : {None, "op1"}, action : {None},
   resolution : {None}]

\* a ServiceActionJob left by an earlier dispatch, its rq job long gone
OldJob ==
  [id |-> 0, ip |-> "A", action |-> "block", asynchronousJobId |-> 0, status |-> "pending"]

Range(s) == {s[i] : i \in DOMAIN s}

\* the clock, the users, the status history and the cancellations do not matter to timeout()
NoSweepState ==
  /\ clock = 0
  /\ users = <<>>
  /\ ticketHistory = [t \in TicketIds |-> <<>>]
  /\ cancelCalls = <<>>
  /\ sweepLog = <<>>
  /\ entryLog = <<>>
  /\ rules = <<>>

Init ==
  /\ tickets \in [TicketIds -> TicketRows]
  /\ \E pre \in {{}, {OldJob}} :
        /\ saJobs = pre
        /\ ticketJobs = [t \in TicketIds |-> {j.id : j \in pre}]
  /\ ticketTags = [t \in TicketIds |-> {}]
  /\ comments = <<>>
  /\ scheduler = {}
  /\ rqJobs = <<>>
  /\ emails = <<>>
  /\ audit = <<>>
  /\ reportItems \in [TicketIds -> ReportConfigs]
  /\ contacted \in [TicketIds -> ContactedConfigs]
  /\ itemsDown \in [TicketIds -> BOOLEAN]
  /\ policy \in {None, "block"}
  /\ pc = [w \in Workers |-> "idle"]
  /\ local = [w \in Workers |-> EmptyLocal]
  /\ runs = 0
  /\ NoSweepState

\* ------------------------------------------------------- get_ip_for_action
RECURSIVE RowsOf(_)
\* the rows of a queryset, in the order the database returns them
RowsOf(S) ==
  IF S = {} THEN <<>>
  ELSE LET x == CHOOSE y \in S : TRUE IN <<x>> \o RowsOf(S \ {x})

RECURSIVE AppendIps(_, _)
AppendIps(ips, rows) ==
  IF rows = <<>> THEN ips ELSE AppendIps(Append(ips, Head(rows).ip), Tail(rows))

RECURSIVE AppendResolved(_, _)
AppendResolved(ips, rows) ==
  IF rows = <<>> THEN ips
  ELSE AppendResolved(Append(ips, Head(rows).fqdnResolved), Tail(rows))

RECURSIVE CollectIps(_, _)
\* the loop over the reports: ips of the IP items, then targets of the FQDN/URL items
CollectIps(ips, reports) ==
  IF reports = <<>> THEN ips
  ELSE LET rep == Head(reports)
           ipItems == {i \in rep : i.ip # None /\ i.itemType = "IP"}
           fqItems == {i \in rep : i.fqdnResolved # None /\ i.itemType \in {"FQDN", "URL"}}
           withIps == AppendIps(ips, RowsOf(ipItems))
       IN CollectIps(AppendResolved(withIps, RowsOf(fqItems)), Tail(reports))

MutGetIpNoSet(reports) ==
  LET ips == CollectIps(<<>>, reports)
  IN IF Len(ips) # 1 THEN None ELSE ips[1]

MutGetIpFirst(reports) ==
  LET ips == RowsOf(Range(CollectIps(<<>>, reports)))
  IN IF Len(ips) = 0 THEN None ELSE ips[1]

GetIpForAction(reports) ==
  LET ips == RowsOf(Range(CollectIps(<<>>, reports)))
  IN IF Len(ips) # 1 THEN None ELSE ips[1]

\* ------------------------------------------ _check_timeout_ticket_conformance
MutConformanceCaseSensitive(ticket, njobs) ==
  IF ticket.defendant = None \/ ticket.service = None THEN FALSE
  ELSE IF ticket.status \in {"closed", "answered"} THEN FALSE
  ELSE IF Lower(ticket.category) \notin {"phishing", "copyright", "illegal"} THEN FALSE
  ELSE IF ticket.treatedBy # None THEN FALSE
  ELSE IF njobs # 0 THEN FALSE
  ELSE TRUE

MutConformanceNoJobsCheck(ticket, njobs) ==
  IF ticket.defendant = None \/ ticket.service = None THEN FALSE
  ELSE IF Lower(ticket.status) \in {"closed", "answered"} THEN FALSE
  ELSE IF Lower(ticket.category) \notin {"phishing", "copyright", "illegal"} THEN FALSE
  ELSE IF ticket.treatedBy # None THEN FALSE
  ELSE TRUE

CheckTimeoutTicketConformance(ticket, njobs) ==
  IF ticket.defendant = None \/ ticket.service = None THEN FALSE
  ELSE IF Lower(ticket.status) \in {"closed", "answered"} THEN FALSE
  ELSE IF Lower(ticket.category) \notin {"phishing", "copyright", "illegal"} THEN FALSE
  ELSE IF ticket.treatedBy # None THEN FALSE
  ELSE IF njobs # 0 THEN FALSE
  ELSE TRUE

\* ------------------------------------------------------------- collaborators
\* common.set_ticket_status(ticket, status, reset_snooze): the row gets the status
SetTicketStatus(row, status) == [row EXCEPT !.status = status]

\* common.close_ticket(ticket, resolution_codename): the row is closed with the resolution
CommonCloseTicket(row, reason) == [row EXCEPT !.status = "Closed", !.resolution = reason]

\* ActionServiceBase.get_action_for_timeout(ticket)
GetActionForTimeout(ticket) == policy

\* phishing.is_all_down_for_ticket(ticket)
IsAllDownForTicket(t) == itemsDown[t]

\* rq: Job.is_finished
IsFinished(j) == rqJobs[j].status = "finished"

\* settings.TAGS entry added by _add_timeout_tag for a category name
TimeoutTag(category) ==
  IF Lower(category) = "phishing" THEN "phishing_autoclosed"
  ELSE IF Lower(category) = "copyright" THEN "copyright_autoclosed"
  ELSE None

Goto(w, where) == pc' = [pc EXCEPT ![w] = where]

\* ------------------------------------------------------------------ timeout
Timeout_Start(w, t) ==
  /\ pc[w] \in {"idle", "done"}
  /\ runs < MaxRuns
  /\ runs' = runs + 1
  /\ local' = [local EXCEPT ![w] = [EmptyLocal EXCEPT !.tid = t, !.run = runs + 1,
                                                       !.ticket = tickets[t]]]
  /\ Goto(w, "gate")
  /\ UNCHANGED <<dbvars, envvars, sweepvars>>

Timeout_Gate(w) ==
  /\ pc[w] = "gate"
  /\ LET ok == CheckTimeoutTicketConformance(local[w].ticket,
                                             Cardinality(ticketJobs[local[w].tid]))
     IN /\ local' = [local EXCEPT ![w].gate = IF ok THEN "accept" ELSE "reject"]
        /\ Goto(w, IF ok THEN "policy" ELSE "done")
  /\ UNCHANGED <<dbvars, envvars, sweepvars, runs>>

MutPolicyNoAllDownCheck(w) ==
  /\ pc[w] = "policy"
  /\ LET action == GetActionForTimeout(local[w].ticket)
     IN IF action = None
        THEN /\ Goto(w, "done")
             /\ UNCHANGED local
        ELSE /\ local' = [local EXCEPT ![w].action = action]
             /\ Goto(w, "getip")
  /\ UNCHANGED <<dbvars, envvars, sweepvars, runs>>

MutPolicyAllDownFirst(w) ==
  /\ pc[w] = "policy"
  /\ LET action == GetActionForTimeout(local[w].ticket)
         t == local[w].tid
     IN IF Lower(local[w].ticket.category) = "phishing" /\ IsAllDownForTicket(t)
        THEN /\ local' = [local EXCEPT ![w].action = action,
                                       ![w].reason = "fixed_customer",
                                       ![w].blocked = FALSE]
             /\ Goto(w, "close_providers")
        ELSE IF action = None
        THEN /\ Goto(w, "done")
             /\ UNCHANGED local
        ELSE /\ local' = [local EXCEPT ![w].action = action]
             /\ Goto(w, "getip")
  /\ UNCHANGED <<dbvars, envvars, sweepvars, runs>>

Timeout_Policy(w) ==
  /\ pc[w] = "policy"
  /\ LET action == GetActionForTimeout(local[w].ticket)
         t == local[w].tid
     IN IF action = None
        THEN /\ Goto(w, "done")
             /\ UNCHANGED local
        ELSE IF Lower(local[w].ticket.category) = "phishing" /\ IsAllDownForTicket(t)
        THEN /\ local' = [local EXCEPT ![w].action = action,
                                       ![w].reason = "fixed_customer",
                                       ![w].blocked = FALSE]
             /\ Goto(w, "close_providers")
        ELSE /\ local' = [local EXCEPT ![w].action = action]
             /\ Goto(w, "getip")
  /\ UNCHANGED <<dbvars, envvars, sweepvars, runs>>

Timeout_GetIp(w) ==
  /\ pc[w] = "getip"
  /\ LET ip == GetIpForAction(reportItems[local[w].tid])
     IN /\ local' = [local EXCEPT ![w].ip = ip]
        /\ Goto(w, IF ip = None THEN "ip_error" ELSE "apply_set")
  /\ UNCHANGED <<dbvars, envvars, sweepvars, runs>>

Timeout_IpError(w) ==
  /\ pc[w] = "ip_error"
  /\ LET row == SetTicketStatus(local[w].ticket, "ActionError")
     IN /\ local' = [local EXCEPT ![w].ticket = row]
        /\ tickets' = [tickets EXCEPT ![local[w].tid] = row]
  /\ Goto(w, "ip_comment")
  /\ UNCHANGED <<ticketJobs, ticketTags, comments, saJobs, scheduler, rqJobs, emails,
                 audit, envvars, sweepvars, runs>>

Timeout_IpComment(w) ==
  /\ pc[w] = "ip_comment"
  /\ comments' = Append(comments,
                        [ticket |-> local[w].tid, user |-> BOT_USER,
                         comment |-> "None or multiple ip addresses for this ticket",
                         run |-> local[w].run])
  /\ audit' = Append(audit, [ticket |-> local[w].tid, action |-> "add_comment",
                             run |-> local[w].run])
  /\ tickets' = [tickets EXCEPT ![local[w].tid] = local[w].ticket]
  /\ Goto(w, "done")
  /\ UNCHANGED <<ticketJobs, ticketTags, saJobs, scheduler, rqJobs, emails,
                 envvars, sweepvars, local, runs>>

\* ---------------------------------------------------- _apply_timeout_action
MutApplySetActionNoAudit(w) ==
  /\ pc[w] = "apply_set"
  /\ LET row == [local[w].ticket EXCEPT !.action = local[w].action]
     IN /\ local' = [local EXCEPT ![w].ticket = row]
        /\ tickets' = [tickets EXCEPT ![local[w].tid] = row]
  /\ Goto(w, "schedule")
  /\ UNCHANGED <<ticketJobs, ticketTags, comments, saJobs, scheduler, rqJobs, emails,
                 audit, envvars, sweepvars, runs>>

\* ticket.action = action; the 'set_action' audit entry; ticket.save()
Apply_SetAction(w) ==
  /\ pc[w] = "apply_set"
  /\ LET row == [local[w].ticket EXCEPT !.action = local[w].action]
     IN /\ local' = [local EXCEPT ![w].ticket = row]
        /\ audit' = Append(audit, [ticket |-> local[w].tid, action |-> "set_action",
                                   run |-> local[w].run])
        /\ tickets' = [tickets EXCEPT ![local[w].tid] = row]
  /\ Goto(w, "schedule")
  /\ UNCHANGED <<ticketJobs, ticketTags, comments, saJobs, scheduler, rqJobs, emails,
                 envvars, sweepvars, runs>>

\* utils.scheduler.schedule(func='action.apply_action', ...): the run's number names the job
Apply_Schedule(w) ==
  /\ pc[w] = "schedule"
  /\ LET j == local[w].run
         job == [func |-> "action.apply_action", ticket_id |-> local[w].tid,
                 action_id |-> local[w].action, ip_addr |-> local[w].ip,
                 user_id |-> BOT_USER, status |-> "scheduled", result |-> FALSE,
                 at |-> clock + 3]
     IN /\ scheduler' = scheduler \cup {j}
        /\ rqJobs' = [k \in DOMAIN rqJobs \cup {j} |-> IF k = j THEN job ELSE rqJobs[k]]
        /\ local' = [local EXCEPT ![w].job = j]
  /\ Goto(w, "create_job")
  /\ UNCHANGED <<tickets, ticketJobs, ticketTags, comments, saJobs, emails, audit,
                 envvars, sweepvars, runs>>

\* ServiceActionJob.objects.create(...)
Apply_CreateJob(w) ==
  /\ pc[w] = "create_job"
  /\ saJobs' = saJobs \cup {[id |-> local[w].run, ip |-> local[w].ip,
                             action |-> local[w].action,
                             asynchronousJobId |-> local[w].job, status |-> "pending"]}
  /\ Goto(w, "add_job")
  /\ UNCHANGED <<tickets, ticketJobs, ticketTags, comments, scheduler, rqJobs, emails,
                 audit, envvars, sweepvars, local, runs>>

\* ticket.jobs.add(job)
Apply_AddJob(w) ==
  /\ pc[w] = "add_job"
  /\ ticketJobs' = [ticketJobs EXCEPT ![local[w].tid] = @ \cup {local[w].run}]
  /\ Goto(w, "wait")
  /\ UNCHANGED <<tickets, ticketTags, comments, saJobs, scheduler, rqJobs, emails,
                 audit, envvars, sweepvars, local, runs>>

\* while not async_job.is_finished: sleep(5) -- the loop is left once the job is finished
Apply_Wait(w) ==
  /\ pc[w] = "wait"
  /\ IsFinished(local[w].job)
  /\ Goto(w, "result")
  /\ UNCHANGED <<dbvars, envvars, sweepvars, local, runs>>

MutResultIgnored(w) ==
  /\ pc[w] = "result"
  /\ Goto(w, "reread")
  /\ UNCHANGED <<dbvars, envvars, sweepvars, local, runs>>

\* if not service_action_job.result: return
Timeout_Result(w) ==
  /\ pc[w] = "result"
  /\ Goto(w, IF rqJobs[local[w].job].result THEN "reread" ELSE "done")
  /\ UNCHANGED <<dbvars, envvars, sweepvars, local, runs>>

\* ticket = Ticket.objects.get(id=ticket.id); _close_ticket(ticket, 'fixed', True)
Timeout_Reread(w) ==
  /\ pc[w] = "reread"
  /\ local' = [local EXCEPT ![w].ticket = tickets[local[w].tid],
                            ![w].reason = "fixed",
                            ![w].blocked = TRUE]
  /\ Goto(w, "close_providers")
  /\ UNCHANGED <<dbvars, envvars, sweepvars, runs>>

\* ------------------------------------------------- cancel_rq_scheduler_jobs
\* 'cancelled by %s' % status
CancelledBy(status) ==
  CASE status = "answered" -> "cancelled by answered"
    [] status = "Closed" -> "cancelled by Closed"
    [] OTHER -> "cancelled by"

CancelStatuses == {"answered", "Closed"}

MutCancelNoMembershipTest(t, status, jobs, sched) ==
  LET hit == {j \in jobs : j.id \in ticketJobs[t]}
      first == {j.asynchronousJobId : j \in hit}
      sched1 == sched \ first
      second == {k \in sched1 : /\ rqJobs[k].func \in ASYNC_JOB_TO_CANCEL
                                /\ rqJobs[k].ticket_id = t}
  IN [saJobs |-> {IF j \in hit THEN [j EXCEPT !.status = CancelledBy(status)] ELSE j
                  : j \in jobs},
      scheduler |-> sched1 \ second,
      cancelled |-> first \cup second]

MutCancelFirstOnly(t, status, jobs, sched) ==
  LET all == {j \in jobs : j.id \in ticketJobs[t] /\ j.asynchronousJobId \in sched}
      hit == IF all = {} THEN {} ELSE {CHOOSE j \in all : TRUE}
      first == {j.asynchronousJobId : j \in hit}
  IN [saJobs |-> {IF j \in hit THEN [j EXCEPT !.status = CancelledBy(status)] ELSE j
                  : j \in jobs},
      scheduler |-> sched \ first,
      cancelled |-> first]

MutCancelAnyTicket(t, status, jobs, sched) ==
  LET hit == {j \in jobs : j.id \in ticketJobs[t] /\ j.asynchronousJobId \in sched}
      first == {j.asynchronousJobId : j \in hit}
      sched1 == sched \ first
      second == {k \in sched1 : rqJobs[k].func \in ASYNC_JOB_TO_CANCEL}
  IN [saJobs |-> {IF j \in hit THEN [j EXCEPT !.status = CancelledBy(status)] ELSE j
                  : j \in jobs},
      scheduler |-> sched1 \ second,
      cancelled |-> first \cup second]

\* the two loops of cancel_rq_scheduler_jobs on the ServiceActionJob rows `jobs` and the
\* scheduler content `sched`: what they leave, and the ids given to scheduler.cancel
CancelRqSchedulerJobs(t, status, jobs, sched) ==
  LET hit == {j \in jobs : j.id \in ticketJobs[t] /\ j.asynchronousJobId \in sched}
      first == {j.asynchronousJobId : j \in hit}
      sched1 == sched \ first
      second == {k \in sched1 : /\ rqJobs[k].func \in ASYNC_JOB_TO_CANCEL
                                /\ rqJobs[k].ticket_id = t}
  IN [saJobs |-> {IF j \in hit THEN [j EXCEPT !.status = CancelledBy(status)] ELSE j
                  : j \in jobs},
      scheduler |-> sched1 \ second,
      cancelled |-> first \cup second]

\* one call of cancel_rq_scheduler_jobs(ticket_id=t, status=status)
CancelJobs(t, status) ==
  /\ Len(cancelCalls) < MaxCancels
  /\ LET c == CancelRqSchedulerJobs(t, status, saJobs, scheduler)
     IN /\ saJobs' = c.saJobs
        /\ scheduler' = c.scheduler
        /\ cancelCalls' = Append(cancelCalls,
                                 [ticket |-> t, status |-> status, ids |-> c.cancelled])
  /\ UNCHANGED <<tickets, ticketJobs, ticketTags, comments, rqJobs, emails, audit,
                 envvars, clock, users, ticketHistory, sweepLog, entryLog, rules, pc,
                 local, runs>>

\* ------------------------------------------------------------ _close_ticket
MutCloseProvidersSkipped(w) ==
  /\ pc[w] = "close_providers"
  /\ Goto(w, "close_defendant")
  /\ UNCHANGED <<dbvars, envvars, sweepvars, local, runs>>

Close_Providers(w) ==
  /\ pc[w] = "close_providers"
  /\ emails' = Append(emails, [ticket |-> local[w].tid,
                               to |-> Range(contacted[local[w].tid]),
                               template |-> "case_closed", lang |-> None,
                               run |-> local[w].run])
  /\ Goto(w, "close_defendant")
  /\ UNCHANGED <<tickets, ticketJobs, ticketTags, comments, saJobs, scheduler, rqJobs,
                 audit, envvars, sweepvars, local, runs>>

MutDefendantTemplateSwapped(service_blocked) ==
  IF service_blocked THEN "ticket_closed" ELSE "service_blocked"

DefendantTemplate(service_blocked) ==
  IF service_blocked THEN "service_blocked" ELSE "ticket_closed"

Close_Defendant(w) ==
  /\ pc[w] = "close_defendant"
  /\ emails' = Append(emails, [ticket |-> local[w].tid,
                               to |-> {DefendantEmail(local[w].ticket.defendant)},
                               template |-> DefendantTemplate(local[w].blocked),
                               lang |-> DefendantLang(local[w].ticket.defendant),
                               run |-> local[w].run])
  /\ Goto(w, "close_tag")
  /\ UNCHANGED <<tickets, ticketJobs, ticketTags, comments, saJobs, scheduler, rqJobs,
                 audit, envvars, sweepvars, local, runs>>

\* _add_timeout_tag(ticket)
Close_Tag(w) ==
  /\ pc[w] = "close_tag"
  /\ LET t == local[w].tid
         tag_name == TimeoutTag(local[w].ticket.category)
     IN IF tag_name # None
        THEN /\ ticketTags' = [ticketTags EXCEPT ![t] = @ \cup {tag_name}]
             /\ tickets' = [tickets EXCEPT ![t] = local[w].ticket]
             /\ audit' = Append(audit, [ticket |-> t, action |-> "add_tag",
                                        run |-> local[w].run])
        ELSE UNCHANGED <<ticketTags, tickets, audit>>
  /\ Goto(w, "close_final")
  /\ UNCHANGED <<ticketJobs, comments, saJobs, scheduler, rqJobs, emails, envvars, sweepvars,
                 local, runs>>

\* common.close_ticket(ticket, resolution_codename=reason): the ticket is closed and its
\* pending jobs are cancelled
Close_Final(w) ==
  /\ pc[w] = "close_final"
  /\ LET t == local[w].tid
         row == CommonCloseTicket(local[w].ticket, local[w].reason)
         c == CancelRqSchedulerJobs(t, "Closed", saJobs, scheduler)
     IN /\ local' = [local EXCEPT ![w].ticket = row]
        /\ tickets' = [tickets EXCEPT ![t] = row]
        /\ saJobs' = c.saJobs
        /\ scheduler' = c.scheduler
        /\ cancelCalls' = Append(cancelCalls,
                                 [ticket |-> t, status |-> "Closed", ids |-> c.cancelled])
  /\ Goto(w, "done")
  /\ UNCHANGED <<ticketJobs, ticketTags, comments, rqJobs, emails, audit, envvars,
                 clock, users, ticketHistory, sweepLog, entryLog, rules, runs>>

\* ------------------------------------------------- rq-scheduler and rq worker
\* the scheduler hands a due job to the queue
Rq_Enqueue(j) ==
  /\ j \in scheduler
  /\ scheduler' = scheduler \ {j}
  /\ rqJobs' = [rqJobs EXCEPT ![j].status = "queued"]
  /\ UNCHANGED <<tickets, ticketJobs, ticketTags, comments, saJobs, emails, audit,
                 envvars, sweepvars, pc, local, runs>>

JobOutcomes == {"truthy", "falsy", "failed"}

\* an rq worker runs the job: it returns a value (finished) or raises / times out (failed)
Rq_Perform(j, outcome) ==
  /\ j \in DOMAIN rqJobs
  /\ rqJobs[j].status = "queued"
  /\ rqJobs' = [rqJobs EXCEPT ![j].status = IF outcome = "failed" THEN "failed"
                                             ELSE "finished",
                              ![j].result = (outcome = "truthy")]
  /\ UNCHANGED <<tickets, ticketJobs, ticketTags, comments, saJobs, scheduler, emails,
                 audit, envvars, sweepvars, pc, local, runs>>

WorkerStep(w) ==
  \/ Timeout_Gate(w)
  \/ Timeout_Policy(w)
  \/ Timeout_GetIp(w)
  \/ Timeout_IpError(w)
  \/ Timeout_IpComment(w)
  \/ Apply_SetAction(w)
  \/ Apply_Schedule(w)
  \/ Apply_CreateJob(w)
  \/ Apply_AddJob(w)
  \/ Apply_Wait(w)
  \/ Timeout_Result(w)
  \/ Timeout_Reread(w)
  \/ Close_Providers(w)
  \/ Close_Defendant(w)
  \/ Close_Tag(w)
  \/ Close_Final(w)

RqStep ==
  \/ \E j \in scheduler : Rq_Enqueue(j)
  \/ \E j \in DOMAIN rqJobs, o \in JobOutcomes : Rq_Perform(j, o)

Next ==
  \/ \E w \in Workers, t \in TicketIds : Timeout_Start(w, t)
  \/ \E w \in Workers : WorkerStep(w)
  \/ RqStep

Spec == Init /\ [][Next]_vars

\* a ticket that passes the gate, as the timeout job of an Alarm ticket finds it
ConformantRows ==
  [defendant : {"d1"}, service : {"s1"}, status : {ALARM},
   category : {"Phishing", "Illegal"}, treatedBy : {None}, action : {None},
   resolution : {None}]

InitConformant ==
  /\ tickets \in [TicketIds -> ConformantRows]
  /\ saJobs = {}
  /\ ticketJobs = [t \in TicketIds |-> {}]
  /\ ticketTags = [t \in TicketIds |-> {}]
  /\ comments = <<>>
  /\ scheduler = {}
  /\ rqJobs = <<>>
  /\ emails = <<>>
  /\ audit = <<>>
  /\ reportItems \in [TicketIds -> ReportConfigs]
  /\ contacted \in [TicketIds -> ContactedConfigs]
  /\ itemsDown \in [TicketIds -> BOOLEAN]
  /\ policy \in {None, "block"}
  /\ pc = [w \in Workers |-> "idle"]
  /\ local = [w \in Workers |-> EmptyLocal]
  /\ runs = 0
  /\ NoSweepState

\* every started run keeps running, and the scheduler and the rq worker get to every job
FairSpec ==
  /\ InitConformant
  /\ [][Next]_vars
  /\ \A w \in Workers : WF_vars(WorkerStep(w))
  /\ WF_vars(RqStep)

\* ---- get_ip_for_action over every small set of report items
RECURSIVE SubsetsUpTo(_, _)
SubsetsUpTo(S, k) ==
  IF k = 0 THEN {{}}
  ELSE LET prev == SubsetsUpTo(S, k - 1)
       IN prev \cup {s \cup {x} : s \in prev, x \in S}

\* the reports ReportIdx of a ticket, holding the items of T = {<<report, item>>}
ReportsOf(T) == [r \in ReportIdx |-> {x[2] : x \in {y \in T : y[1] = r}}]

AllReports == {ReportsOf(T) : T \in SubsetsUpTo(ReportIdx \X ItemKinds, MaxItems)}

InitIp ==
  /\ tickets = [t \in TicketIds |->
                  [defendant |-> "d1", service |-> "s1", status |-> ALARM,
                   category |-> "Illegal", treatedBy |-> None, action |-> None,
                   resolution |-> None]]
  /\ saJobs = {}
  /\ ticketJobs = [t \in TicketIds |-> {}]
  /\ ticketTags = [t \in TicketIds |-> {}]
  /\ comments = <<>>
  /\ scheduler = {}
  /\ rqJobs = <<>>
  /\ emails = <<>>
  /\ audit = <<>>
  /\ reportItems \in [TicketIds -> AllReports]
  /\ contacted \in [TicketIds -> ContactedConfigs]
  /\ itemsDown = [t \in TicketIds |-> FALSE]
  /\ policy = "block"
  /\ pc = [w \in Workers |-> "idle"]
  /\ local = [w \in Workers |-> EmptyLocal]
  /\ runs = 0
  /\ NoSweepState

NextIp ==
  \/ \E t \in TicketIds : Timeout_Start("w1", t)
  \/ Timeout_Gate("w1")
  \/ Timeout_Policy("w1")
  \/ Timeout_GetIp("w1")

SpecIp == InitIp /\ [][NextIp]_vars

\* ---- cancel_rq_scheduler_jobs over small job tables
\* the rq jobs the scheduler may hold: the remediation jobs of ticket 1, one of another
\* ticket, timeout jobs of both, and a job that is not cancellable
CancelRqJobs ==
  LET J(f, t) == [func |-> f, ticket_id |-> t, action_id |-> "block", ip_addr |-> "A",
                  user_id |-> BOT_USER, status |-> "scheduled", result |-> FALSE,
                  at |-> 3]
  IN << J("action.apply_action", 1), J("action.apply_action", 1),
        J("action.apply_action", 2), J("ticket.timeout", 1), J("ticket.timeout", 2),
        J("ticket.close_emails_thread", 1) >>

CancelJobIds == {1, 2, 3}
CancelJobStatuses == {"pending", "completed", "cancelled by answered"}

InitCancel ==
  /\ tickets = [t \in TicketIds |->
                  [defendant |-> "d1", service |-> "s1", status |-> ALARM,
                   category |-> "Illegal", treatedBy |-> None, action |-> "block",
                   resolution |-> None]]
  /\ rqJobs = CancelRqJobs
  /\ scheduler \in SUBSET DOMAIN CancelRqJobs
  /\ \E st \in [CancelJobIds -> CancelJobStatuses] :
        /\ saJobs = {[id |-> j, ip |-> "A", action |-> "block", asynchronousJobId |-> j,
                      status |-> st[j]] : j \in CancelJobIds}
        /\ \A j \in CancelJobIds : st[j] # "pending" => j \notin scheduler
  /\ ticketJobs \in [TicketIds -> SUBSET CancelJobIds]
  /\ ticketTags = [t \in TicketIds |-> {}]
  /\ comments = <<>>
  /\ emails = <<>>
  /\ audit = <<>>
  /\ reportItems = [t \in TicketIds |-> <<>>]
  /\ contacted \in [TicketIds -> ContactedConfigs]
  /\ itemsDown = [t \in TicketIds |-> FALSE]
  /\ policy = "block"
  /\ pc = [w \in Workers |-> "idle"]
  /\ local = [w \in Workers |-> EmptyLocal]
  /\ runs = 0
  /\ NoSweepState

NextCancel ==
  \/ \E t \in TicketIds, status \in CancelStatuses : CancelJobs(t, status)
  \/ \E j \in scheduler : Rq_Enqueue(j)

SpecCancel == InitCancel /\ [][NextCancel]_vars

\* ---------------------------------------------------------- periodic sweeps
\* None in an integer column or in a datetime column
NoTime == 0 - 1

\* timedelta(hours=24), in seconds
LoginWindow == 24 * 3600

\* a Ticket row with the fields the sweeps read and write
SweepRow(status, treatedBy, escalated, alarm, snooze, pause, previousStatus) ==
  [defendant |-> "d1", service |-> "s1", status |-> status, category |-> "Illegal",
   treatedBy |-> treatedBy, action |-> None, resolution |-> None,
   escalated |-> escalated, alarm |-> alarm,
   snoozeStart |-> snooze[1], snoozeDuration |-> snooze[2],
   pauseStart |-> pause[1], pauseDuration |-> pause[2],
   previousStatus |-> previousStatus]

\* the instants at which a sweep may run
ClockValues == {0, 2, 3, 86401, 86402}

\* time passes
Tick ==
  /\ \E c \in ClockValues : c > clock /\ clock' = c
  /\ UNCHANGED <<dbvars, envvars, users, ticketHistory, cancelCalls, sweepLog, entryLog,
                 rules, pc, local, runs>>

RECURSIVE ConcatLogs(_, _)
\* the audit entries of the tickets 1..n, in the order the sweep visits them
ConcatLogs(logs, n) == IF n = 0 THEN <<>> ELSE ConcatLogs(logs, n - 1) \o logs[n]

SweepEntry(t, action) == [ticket |-> t, action |-> action, run |-> 0]

\* common.set_ticket_status(ticket, status, reset_snooze) in a sweep: the status is set,
\* the snooze fields are reset when asked, and the row is saved
SweepSetStatus(row, status, reset_snooze) ==
  IF reset_snooze
  THEN [row EXCEPT !.status = status, !.snoozeStart = NoTime, !.snoozeDuration = NoTime]
  ELSE [row EXCEPT !.status = status]

\* ---------------------------------------------------- _check_auto_unassignation
\* ticket.treatedBy.operator.role.modelsAuthorizations['ticket']['unassignedOnMultipleAlarm']:
\* the value found, or the failure of the lookup
UnassignedOnMultipleAlarm(ticket) ==
  IF ticket.treatedBy = None THEN [raised |-> TRUE, value |-> FALSE]
  ELSE LET role == users[ticket.treatedBy].role
       IN IF role \in {"nooperator", "norole", "nokey"}
          THEN [raised |-> TRUE, value |-> FALSE]
          ELSE [raised |-> FALSE, value |-> (role = "on")]

\* history[:3]
FirstThree(history) == SubSeq(history, 1, IF Len(history) < 3 THEN Len(history) ELSE 3)

MutCheckAutoUnassignationFirstTwo(t, ticket, history) ==
  LET h == FirstThree(history)
      flag == UnassignedOnMultipleAlarm(ticket)
  IN IF /\ ~flag.raised /\ flag.value /\ Len(h) >= 2
        /\ \A i \in 1..2 : STATUS_SEQUENCE[i] = h[i]
     THEN [row |-> [ticket EXCEPT !.treatedBy = None, !.escalated = TRUE],
           log |-> <<SweepEntry(t, "change_treatedby"), SweepEntry(t, "update_property")>>]
     ELSE [row |-> ticket, log |-> <<>>]

\* the in-memory ticket after the check, and the audit entries the check writes
CheckAutoUnassignation(t, ticket, history) ==
  LET h == FirstThree(history)
      flag == UnassignedOnMultipleAlarm(ticket)
  IN IF /\ ~flag.raised /\ flag.value /\ Len(h) = 3
        /\ \A i \in 1..3 : STATUS_SEQUENCE[i] = h[i]
     THEN [row |-> [ticket EXCEPT !.treatedBy = None, !.escalated = TRUE],
           log |-> <<SweepEntry(t, "change_treatedby"), SweepEntry(t, "update_property")>>]
     ELSE [row |-> ticket, log |-> <<>>]

\* the tickets at which the body of a sweep's loop raises out of its try
Raising(r) == {t \in DOMAIN r : r[t].raised}

\* `for ticket in Ticket.objects.filter(...)`: the rows are visited in the order of
\* their ids, and an exception that leaves the body ends the loop there
LoopOutcome(r) ==
  [t \in DOMAIN r |->
     IF \A u \in Raising(r) : t <= u
     THEN r[t]
     ELSE [row |-> tickets[t], history |-> ticketHistory[t], log |-> <<>>,
           raised |-> FALSE]]

\* ------------------------------------------------------------ update_waiting
MutUpdateWaitingTicketNotStrict(t, ticket, history, now) ==
  IF ticket.status # WAITING \/ ticket.snoozeStart = NoTime
  THEN [row |-> ticket, history |-> history, log |-> <<>>, raised |-> FALSE]
  ELSE IF ticket.snoozeDuration = NoTime
  THEN [row |-> ticket, history |-> history, log |-> <<>>, raised |-> TRUE]
  ELSE IF now >= ticket.snoozeStart + ticket.snoozeDuration
  THEN LET checked == CheckAutoUnassignation(t, ticket, history)
       IN [row |-> SweepSetStatus(checked.row, ALARM, TRUE),
           history |-> <<ALARM>> \o history,
           log |-> Append(checked.log, SweepEntry(t, "change_status")),
           raised |-> FALSE]
  ELSE [row |-> ticket, history |-> history, log |-> <<>>, raised |-> FALSE]

\* the body of the loop of update_waiting for one ticket: a ticket without snoozeStart
\* raises AttributeError, which is caught; mktime(...) + None raises TypeError, which
\* is not
UpdateWaitingTicket(t, ticket, history, now) ==
  IF ticket.status # WAITING \/ ticket.snoozeStart = NoTime
  THEN [row |-> ticket, history |-> history, log |-> <<>>, raised |-> FALSE]
  ELSE IF ticket.snoozeDuration = NoTime
  THEN [row |-> ticket, history |-> history, log |-> <<>>, raised |-> TRUE]
  ELSE IF now > ticket.snoozeStart + ticket.snoozeDuration
  THEN LET checked == CheckAutoUnassignation(t, ticket, history)
       IN [row |-> SweepSetStatus(checked.row, ALARM, TRUE),
           history |-> <<ALARM>> \o history,
           log |-> Append(checked.log, SweepEntry(t, "change_status")),
           raised |-> FALSE]
  ELSE [row |-> ticket, history |-> history, log |-> <<>>, raised |-> FALSE]

UpdateWaiting ==
  /\ Len(sweepLog) < MaxSweeps
  /\ LET r == LoopOutcome([t \in DOMAIN tickets |->
                             UpdateWaitingTicket(t, tickets[t], ticketHistory[t], clock)])
     IN /\ sweepLog' = Append(sweepLog, [sweep |-> "update_waiting", at |-> clock,
                                         raised |-> Raising(r) # {}])
        /\ tickets' = [t \in DOMAIN tickets |-> r[t].row]
        /\ ticketHistory' = [t \in DOMAIN tickets |-> r[t].history]
        /\ audit' = audit \o ConcatLogs([t \in DOMAIN tickets |-> r[t].log],
                                        Cardinality(DOMAIN tickets))
  /\ UNCHANGED <<ticketJobs, ticketTags, comments, saJobs, scheduler, rqJobs, emails,
                 envvars, clock, users, cancelCalls, entryLog, rules, pc, local, runs>>

\* ------------------------------------------------------------- update_paused
\* (datetime.now() - ticket.pauseStart).seconds: the seconds of the timedelta, its days
\* left out
TimedeltaSeconds(from, to) == (to - from) % DaySeconds

MutUpdatePausedTicketNotStrict(t, ticket, history, now) ==
  IF ticket.status # PAUSED \/ ticket.pauseStart = NoTime
  THEN [row |-> ticket, history |-> history, log |-> <<>>, raised |-> FALSE]
  ELSE IF now >= ticket.pauseStart + ticket.pauseDuration
  THEN [row |-> [SweepSetStatus(ticket, ticket.previousStatus, FALSE)
                   EXCEPT !.pauseStart = NoTime, !.pauseDuration = NoTime],
        history |-> <<ticket.previousStatus>> \o history,
        log |-> <<SweepEntry(t, "change_status")>>,
        raised |-> FALSE]
  ELSE [row |-> ticket, history |-> history, log |-> <<>>, raised |-> FALSE]

MutUpdatePausedTicketKeepsPause(t, ticket, history, now) ==
  IF ticket.status # PAUSED \/ ticket.pauseStart = NoTime
  THEN [row |-> ticket, history |-> history, log |-> <<>>, raised |-> FALSE]
  ELSE IF ticket.pauseDuration = NoTime
  THEN [row |-> ticket, history |-> history, log |-> <<>>, raised |-> TRUE]
  ELSE IF now > ticket.pauseStart + ticket.pauseDuration
  THEN LET added ==
             IF /\ ticket.previousStatus = WAITING
                /\ ticket.snoozeDuration # NoTime /\ ticket.snoozeDuration # 0
                /\ ticket.snoozeStart # NoTime
             THEN [ticket EXCEPT !.snoozeDuration =
                                   @ + TimedeltaSeconds(ticket.pauseStart, now)]
             ELSE ticket
       IN [row |-> SweepSetStatus(added, ticket.previousStatus, FALSE),
           history |-> <<ticket.previousStatus>> \o history,
           log |-> <<SweepEntry(t, "change_status")>>,
           raised |-> FALSE]
  ELSE [row |-> ticket, history |-> history, log |-> <<>>, raised |-> FALSE]

\* the body of the loop of update_paused for one ticket: AttributeError on a missing
\* pauseStart is caught, TypeError on a missing pauseDuration is not
UpdatePausedTicket(t, ticket, history, now) ==
  IF ticket.status # PAUSED \/ ticket.pauseStart = NoTime
  THEN [row |-> ticket, history |-> history, log |-> <<>>, raised |-> FALSE]
  ELSE IF ticket.pauseDuration = NoTime
  THEN [row |-> ticket, history |-> history, log |-> <<>>, raised |-> TRUE]
  ELSE IF now > ticket.pauseStart + ticket.pauseDuration
  THEN LET added ==
             IF /\ ticket.previousStatus = WAITING
                /\ ticket.snoozeDuration # NoTime /\ ticket.snoozeDuration # 0
                /\ ticket.snoozeStart # NoTime
             THEN [ticket EXCEPT !.snoozeDuration =
                                   @ + TimedeltaSeconds(ticket.pauseStart, now)]
             ELSE ticket
       IN [row |-> [SweepSetStatus(added, ticket.previousStatus, FALSE)
                      EXCEPT !.pauseStart = NoTime, !.pauseDuration = NoTime],
           history |-> <<ticket.previousStatus>> \o history,
           log |-> <<SweepEntry(t, "change_status")>>,
           raised |-> FALSE]
  ELSE [row |-> ticket, history |-> history, log |-> <<>>, raised |-> FALSE]

UpdatePaused ==
  /\ Len(sweepLog) < MaxSweeps
  /\ LET r == LoopOutcome([t \in DOMAIN tickets |->
                             UpdatePausedTicket(t, tickets[t], ticketHistory[t], clock)])
     IN /\ sweepLog' = Append(sweepLog, [sweep |-> "update_paused", at |-> clock,
                                         raised |-> Raising(r) # {}])
        /\ tickets' = [t \in DOMAIN tickets |-> r[t].row]
        /\ ticketHistory' = [t \in DOMAIN tickets |-> r[t].history]
        /\ audit' = audit \o ConcatLogs([t \in DOMAIN tickets |-> r[t].log],
                                        Cardinality(DOMAIN tickets))
  /\ UNCHANGED <<ticketJobs, ticketTags, comments, saJobs, scheduler, rqJobs, emails,
                 envvars, clock, users, cancelCalls, entryLog, rules, pc, local, runs>>

\* ------------------------------------------------------------ follow_the_sun
\* the statuses the filter `where` leaves out
SunExcluded == {"Open", "Reopened", "Paused", "Closed"}

MutFollowTheSunRowsNotStrict(rows, now) ==
  [t \in DOMAIN rows |->
     LET user == rows[t].treatedBy
     IN IF user \in DOMAIN users \ {BOT_USER} /\ rows[t].status \notin SunExcluded
        THEN [rows[t] EXCEPT !.alarm = (now >= users[user].last_login + LoginWindow)]
        ELSE rows[t]]

\* the Ticket rows after the loop over the users other than the bot: of each, the
\* tickets it treats that pass the filter get alarm set or cleared
FollowTheSunRows(rows, now) ==
  [t \in DOMAIN rows |->
     LET user == rows[t].treatedBy
     IN IF user \in DOMAIN users \ {BOT_USER} /\ rows[t].status \notin SunExcluded
        THEN [rows[t] EXCEPT !.alarm = (now > users[user].last_login + LoginWindow)]
        ELSE rows[t]]

FollowTheSun ==
  /\ Len(sweepLog) < MaxSweeps
  /\ tickets' = FollowTheSunRows(tickets, clock)
  /\ sweepLog' = Append(sweepLog, [sweep |-> "follow_the_sun", at |-> clock,
                                   raised |-> FALSE])
  /\ UNCHANGED <<ticketJobs, ticketTags, comments, saJobs, scheduler, rqJobs, emails,
                 audit, envvars, clock, users, ticketHistory, cancelCalls, entryLog, rules,
                 pc, local, runs>>

\* ---- the sweeps over small tables of tickets and users
SweepTicketIds == {1, 2}
Operators == {"op1", "op2"}
RoleConfigs == {"on", "off", "nokey", "norole", "nooperator"}
HistoryStatuses == {WAITING, ALARM, PAUSED}

\* the histories of up to three entries, and those of four around the sequence
Histories ==
  UNION {[1..n -> HistoryStatuses] : n \in 0..3}
    \cup {STATUS_SEQUENCE \o <<s>> : s \in HistoryStatuses}
    \cup {<<s>> \o STATUS_SEQUENCE : s \in HistoryStatuses}

\* what the sweeps leave alone, and a sweep log that starts empty
SweepFrame ==
  /\ saJobs = {}
  /\ ticketJobs = [t \in SweepTicketIds |-> {}]
  /\ ticketTags = [t \in SweepTicketIds |-> {}]
  /\ comments = <<>>
  /\ scheduler = {}
  /\ rqJobs = <<>>
  /\ emails = <<>>
  /\ audit = <<>>
  /\ reportItems = [t \in SweepTicketIds |-> <<>>]
  /\ contacted = [t \in SweepTicketIds |-> <<>>]
  /\ itemsDown = [t \in SweepTicketIds |-> FALSE]
  /\ policy = None
  /\ pc = [w \in Workers |-> "idle"]
  /\ local = [w \in Workers |-> EmptyLocal]
  /\ runs = 0
  /\ cancelCalls = <<>>
  /\ sweepLog = <<>>
  /\ entryLog = <<>>
  /\ rules = <<>>
  /\ clock = 0

UserRows(role, logins) ==
  [u \in Operators \cup {BOT_USER} |->
     [last_login |-> logins[u], role |-> IF u = "op1" THEN role ELSE "off"]]

InitWaiting ==
  /\ SweepFrame
  /\ \E role \in RoleConfigs :
        users = UserRows(role, [u \in Operators \cup {BOT_USER} |-> 0])
  /\ \E status \in {WAITING, ALARM, PAUSED}, treatedBy \in {None, "op1"},
        escalated \in BOOLEAN, snooze \in {<<0, 2>>, <<NoTime, NoTime>>} :
        tickets = [t \in SweepTicketIds |->
                     IF t = 1
                     THEN SweepRow(status, treatedBy, escalated, FALSE, snooze,
                                   <<NoTime, NoTime>>, None)
                     ELSE SweepRow(WAITING, "op1", FALSE, FALSE, <<2, 86399>>,
                                   <<NoTime, NoTime>>, None)]
  /\ \E h \in Histories :
        ticketHistory = [t \in SweepTicketIds |-> IF t = 1 THEN h ELSE STATUS_SEQUENCE]

NextWaiting == Tick \/ UpdateWaiting

SpecWaiting == InitWaiting /\ [][NextWaiting]_vars

InitPaused ==
  /\ SweepFrame
  /\ users = UserRows("off", [u \in Operators \cup {BOT_USER} |-> 0])
  /\ tickets \in [SweepTicketIds ->
        {SweepRow(PAUSED, None, FALSE, FALSE, snooze, pause, previousStatus) :
           snooze \in {<<0, 5>>, <<NoTime, NoTime>>}, pause \in {<<0, 2>>, <<2, 2>>},
           previousStatus \in {WAITING, ALARM}}
        \cup {SweepRow(WAITING, None, FALSE, FALSE, <<0, 5>>, <<NoTime, NoTime>>, None)}]
  /\ ticketHistory = [t \in SweepTicketIds |-> <<>>]

NextPaused == Tick \/ UpdatePaused

SpecPaused == InitPaused /\ [][NextPaused]_vars

InitSun ==
  /\ SweepFrame
  /\ \E logins \in [Operators \cup {BOT_USER} -> {0, 2}] :
        logins[BOT_USER] = 0 /\ users = UserRows("off", logins)
  /\ tickets \in [SweepTicketIds ->
        {SweepRow(status, treatedBy, FALSE, alarm, <<NoTime, NoTime>>,
                  <<NoTime, NoTime>>, None) :
           status \in {"Open", "Reopened", PAUSED, "Closed", WAITING, ALARM},
           treatedBy \in {None, BOT_USER} \cup Operators, alarm \in BOOLEAN}]
  /\ ticketHistory = [t \in SweepTicketIds |-> <<>>]

NextSun == Tick \/ FollowTheSun

SpecSun == InitSun /\ [][NextSun]_vars

\* ------------------------------------------------------------------ claims
JobsOf(t) == {j \in DOMAIN rqJobs : rqJobs[j].func = "action.apply_action"
                                    /\ rqJobs[j].ticket_id = t}

\* the run of worker w has handed a job to the scheduler
ScheduledInRun(w) == local[w].run \in DOMAIN rqJobs

\* the run of worker w has gone through _close_ticket to its end
ClosedInRun(w) == pc[w] = "done" /\ local[w].reason # None

\* the five conditions of the conformance gate, as the specification lists them
GateFive(ticket, njobs) ==
  /\ ticket.defendant # None /\ ticket.service # None
  /\ Lower(ticket.status) # "closed" /\ Lower(ticket.status) # "answered"
  /\ Lower(ticket.category) \in {"phishing", "copyright", "illegal"}
  /\ ticket.treatedBy = None
  /\ njobs = 0

\* C1: the gate accepts a ticket iff it has a defendant and a service, its status
\* (case-insensitively) is neither closed nor answered, its category is phishing,
\* copyright or illegal, it has no operator and it owns no job; and a run schedules
\* a job or closes the ticket only if the gate accepted the ticket in that run.
C1_GateDecides ==
  /\ [][\A w \in Workers :
          (pc[w] = "gate" /\ pc'[w] # "gate")
          => /\ (local'[w].gate = "accept")
                  <=> GateFive(local[w].ticket, Cardinality(ticketJobs[local[w].tid]))
             /\ (pc'[w] = "policy") <=> (local'[w].gate = "accept")
             /\ (pc'[w] = "done") <=> (local'[w].gate = "reject")]_vars
  /\ [](\A w \in Workers :
          (ScheduledInRun(w) \/ ClosedInRun(w) \/ pc[w] \notin {"idle", "gate", "done"})
          => local[w].gate = "accept")

C1_Witness ==
  \E w \in Workers : local[w].gate = "accept" /\ ScheduledInRun(w)

\* one of the gate violations the specification lists
Violates(ticket, njobs) ==
  \/ ticket.defendant = None
  \/ ticket.status = "Closed"
  \/ ticket.category = "Spam"
  \/ ticket.treatedBy # None
  \/ njobs >= 1

\* C2: a ticket with a gate violation (no defendant, status Closed, category Spam,
\* an operator, or a job) makes the run a no-op: reading the ticket and checking the
\* gate change nothing in the database, the scheduler or the mail, and the run returns.
C2_ViolationIsNoOp ==
  [][\A w \in Workers :
       /\ (pc[w] \in {"idle", "done"} /\ pc'[w] = "gate") => UNCHANGED dbvars
       /\ (pc[w] = "gate" /\ pc'[w] # "gate"
           /\ Violates(local[w].ticket, Cardinality(ticketJobs[local[w].tid])))
          => /\ pc'[w] = "done"
             /\ local'[w].gate = "reject"
             /\ UNCHANGED dbvars]_vars

\* a run rejected for the only reason that the ticket owns a job
C2_Witness ==
  \E w \in Workers :
     /\ pc[w] = "done" /\ local[w].gate = "reject"
     /\ GateFive(local[w].ticket, 0)
     /\ ticketJobs[local[w].tid] # {}

\* C3: under any interleaving of timeout() runs for one ticket, at most one
\* 'action.apply_action' job is scheduled and at most one ServiceActionJob is attached.
C3_AtMostOneJob ==
  \A t \in TicketIds : Cardinality(JobsOf(t)) <= 1 /\ Cardinality(ticketJobs[t]) <= 1

\* the distinct addresses of a ticket's reports: the ip of the IP items, the resolved
\* target of the FQDN and URL items
Collected(reports) ==
  UNION { {i.ip : i \in {x \in reports[r] : x.itemType = "IP" /\ x.ip # None}}
          \cup {i.fqdnResolved : i \in {x \in reports[r] :
                   x.itemType \in {"FQDN", "URL"} /\ x.fqdnResolved # None}}
          : r \in DOMAIN reports }

\* C4: get_ip_for_action returns the single address when the distinct collected
\* addresses are exactly one, and none when there is no address or several; the same
\* address on several items or reports still resolves to it.
C4_IpResolution ==
  \A w \in Workers :
     pc[w] \in {"ip_error", "apply_set"}
     => LET D == Collected(reportItems[local[w].tid])
        IN /\ IF Cardinality(D) = 1 THEN local[w].ip \in D ELSE local[w].ip = None
           /\ (pc[w] = "ip_error") <=> (Cardinality(D) # 1)

\* one address, found on an item of each of the two reports
C4_Witness ==
  \E w \in Workers :
     /\ pc[w] = "apply_set" /\ local[w].ip = "A"
     /\ \A r \in ReportIdx : Collected(<<reportItems[local[w].tid][r]>>) = {"A"}

EmailsOfRun(r) == {i \in DOMAIN emails : emails[i].run = r}

\* the run of w passed the gate, found an action, did not take the all-items-down
\* close, and its ticket has no or several distinct addresses
AmbiguousRun(w) ==
  /\ local[w].gate = "accept"
  /\ policy # None
  /\ ~(local[w].ticket.category = "Phishing" /\ itemsDown[local[w].tid])
  /\ Cardinality(Collected(reportItems[local[w].tid])) # 1

\* C5: a run that passed the gate, found an action, did not take the all-items-down
\* close and found no or several addresses ends with the ticket in ActionError and a
\* comment of the bot; it schedules no job, creates no ServiceActionJob, sends no
\* email and does not close the ticket.
C5_AmbiguousIpIsActionError ==
  \A w \in Workers :
     (pc[w] = "done" /\ AmbiguousRun(w))
     => /\ tickets[local[w].tid].status = "ActionError"
        /\ \E i \in DOMAIN comments :
              /\ comments[i].ticket = local[w].tid
              /\ comments[i].user = BOT_USER
              /\ comments[i].run = local[w].run
        /\ ~ScheduledInRun(w)
        /\ \A j \in saJobs : j.id # local[w].run
        /\ EmailsOfRun(local[w].run) = {}
        /\ ~ClosedInRun(w)
        /\ tickets[local[w].tid].resolution = None

\* such a run, ended, on a ticket with two distinct addresses
C5_Witness ==
  \E w \in Workers :
     /\ pc[w] = "done" /\ AmbiguousRun(w)
     /\ Cardinality(Collected(reportItems[local[w].tid])) = 2

\* C6: no scheduled 'action.apply_action' job exists before the 'set_action' audit
\* entry of its dispatch is written and the action is recorded on the ticket.
C6_AuditBeforeDispatch ==
  \A j \in DOMAIN rqJobs :
     rqJobs[j].func = "action.apply_action"
     => /\ \E i \in DOMAIN audit :
              /\ audit[i].action = "set_action"
              /\ audit[i].ticket = rqJobs[j].ticket_id
              /\ audit[i].run = j
        /\ tickets[rqJobs[j].ticket_id].action = rqJobs[j].action_id

C6_Witness ==
  \E j \in DOMAIN rqJobs : rqJobs[j].status = "scheduled" /\ j \in scheduler

\* the tag the specification gives a closed ticket of a category
ExpectedTags(category) ==
  CASE category = "Phishing" -> {"phishing_autoclosed"}
    [] category = "Copyright" -> {"copyright_autoclosed"}
    [] OTHER -> {}

TemplatesOfRun(r) == {emails[i].template : i \in EmailsOfRun(r)}

\* the job of w's run finished with a truthy result
JobSucceeded(w) ==
  /\ ScheduledInRun(w)
  /\ rqJobs[local[w].run].status = "finished"
  /\ rqJobs[local[w].run].result

\* C7: when the job of a run finished with a truthy result, the run ends only by
\* closing the ticket with reason 'fixed', the 'service_blocked' email to the
\* defendant (never 'ticket_closed') and the autoclose tag of the category.
C7_SuccessCloses ==
  /\ [](\A w \in Workers :
          (pc[w] = "done" /\ JobSucceeded(w))
          => /\ local[w].reason = "fixed"
             /\ TemplatesOfRun(local[w].run) = {"case_closed", "service_blocked"}
             /\ \E i \in EmailsOfRun(local[w].run) :
                   /\ emails[i].template = "service_blocked"
                   /\ emails[i].to = {DefendantEmail(tickets[local[w].tid].defendant)}
             /\ ticketTags[local[w].tid] = ExpectedTags(tickets[local[w].tid].category))
  /\ [][\A w \in Workers :
          (pc[w] # "done" /\ pc'[w] = "done" /\ JobSucceeded(w))
          => /\ tickets'[local[w].tid].status = "Closed"
             /\ tickets'[local[w].tid].resolution = "fixed"]_vars

C7_Witness ==
  \E w \in Workers :
     /\ pc[w] = "done" /\ JobSucceeded(w)
     /\ tickets[local[w].tid].category = "Copyright"
     /\ tickets[local[w].tid].status = "Closed"

\* the job of w's run ended without a successful result
JobUnsuccessful(w) ==
  /\ ScheduledInRun(w)
  /\ \/ rqJobs[local[w].run].status = "failed"
     \/ rqJobs[local[w].run].status = "finished" /\ ~rqJobs[local[w].run].result

\* C8: when the job of a run ended without a successful result, timeout() returns,
\* with the ticket not closed, no closing email and the status unchanged, and no
\* later run schedules a job.
C8_UnsuccessfulReturns ==
  /\ \A w \in Workers :
        JobUnsuccessful(w)
        ~> (pc[w] = "done" /\ EmailsOfRun(local[w].run) = {} /\ ~ClosedInRun(w))
  /\ [][\A w \in Workers :
          (pc[w] = "gate" /\ pc'[w] = "policy") => ticketJobs[local[w].tid] = {}]_vars

\* the part of C8 that does not need the run to return: a run whose job ended without
\* a successful result never enters _close_ticket and sends nothing, and a run that
\* finds a job on the ticket is stopped by the gate.
C8_NoCloseNoRetry ==
  /\ [](\A w \in Workers :
          JobUnsuccessful(w)
          => /\ pc[w] \in {"create_job", "add_job", "wait", "result", "done"}
             /\ EmailsOfRun(local[w].run) = {}
             /\ local[w].reason = None)
  /\ [][\A w \in Workers :
          (pc[w] = "gate" /\ pc'[w] = "policy") => ticketJobs[local[w].tid] = {}]_vars

\* C9: once the scheduled job is terminal (finished or failed) the poll loop of
\* _apply_timeout_action can be left, so that timeout() returns.
C9_WaitEndsOnTerminalJob ==
  \A w \in Workers :
     (pc[w] = "wait" /\ rqJobs[local[w].job].status \in {"finished", "failed"})
     => ENABLED Apply_Wait(w)

\* the run of w is on a conformant phishing ticket whose items are all reported down
AllDownRun(w) ==
  /\ local[w].gate = "accept"
  /\ local[w].ticket.category = "Phishing"
  /\ itemsDown[local[w].tid]

\* what C10 promises of a run
CustomerFixedClose(w) ==
  /\ local[w].reason = "fixed_customer"
  /\ TemplatesOfRun(local[w].run) = {"case_closed", "ticket_closed"}
  /\ "phishing_autoclosed" \in ticketTags[local[w].tid]
  /\ ~ScheduledInRun(w)
  /\ \A j \in saJobs : j.id # local[w].run

\* C10 as stated: every run on a conformant phishing ticket whose items are all down
\* closes it with reason 'fixed_customer', the 'ticket_closed' email, the tag, no job.
C10_Original ==
  \A w \in Workers : (pc[w] = "done" /\ AllDownRun(w)) => CustomerFixedClose(w)

\* C10 amended: the same, for the runs whose policy lookup returns an action.
C10_AllDownCloses ==
  /\ [](\A w \in Workers :
          (pc[w] = "done" /\ AllDownRun(w) /\ policy # None) => CustomerFixedClose(w))
  /\ [][\A w \in Workers :
          (pc[w] # "done" /\ pc'[w] = "done" /\ AllDownRun(w) /\ policy # None)
          => /\ tickets'[local[w].tid].status = "Closed"
             /\ tickets'[local[w].tid].resolution = "fixed_customer"]_vars

C10_Witness ==
  \E w \in Workers :
     /\ pc[w] = "done" /\ AllDownRun(w) /\ policy # None
     /\ tickets[local[w].tid].status = "Closed"

\* C11: a run schedules a remediation job, closes the ticket or moves it to ActionError
\* only if the status of the ticket it read when it started was Alarm.
C11_OnlyAlarmTickets ==
  \A w \in Workers :
     (\/ pc[w] \in {"ip_error", "schedule"}
      \/ pc[w] = "close_providers" /\ local[w].reason = "fixed_customer")
     => local[w].ticket.status = ALARM

\* the run of w passed the gate and the policy lookup returns none
NoActionRun(w) == local[w].gate = "accept" /\ policy = None

\* C12: when the policy lookup returns none for a ticket that passed the gate, the run
\* returns from the lookup with the database, the scheduler and the mail unchanged: no
\* close, no ActionError, no tag, comment, job or email, also for a phishing ticket
\* whose items are all down.
C12_NoActionIsNoOp ==
  /\ [][\A w \in Workers :
          /\ (pc[w] \in {"idle", "done", "gate"} /\ pc'[w] # pc[w]) => UNCHANGED dbvars
          /\ (pc[w] = "policy" /\ pc'[w] # "policy" /\ policy = None)
             => pc'[w] = "done" /\ UNCHANGED dbvars]_vars
  /\ [](\A w \in Workers :
          NoActionRun(w)
          => /\ pc[w] \in {"policy", "done"}
             /\ local[w].reason = None
             /\ ~ScheduledInRun(w)
             /\ EmailsOfRun(local[w].run) = {}
             /\ \A i \in DOMAIN comments : comments[i].run # local[w].run
             /\ \A i \in DOMAIN audit : audit[i].run # local[w].run
             /\ \A j \in saJobs : j.id # local[w].run)

\* such a run, ended, on a phishing ticket whose items are all down
C12_Witness ==
  \E w \in Workers :
     /\ pc[w] = "done" /\ NoActionRun(w) /\ AllDownRun(w)
     /\ tickets[local[w].tid].status = ALARM
     /\ ticketTags[local[w].tid] = {}

\* the jobs pending in the scheduler that cancel_rq_scheduler_jobs is to cancel for t
PendingFor(t, sched) ==
  {k \in sched : \/ \E j \in saJobs : j.id \in ticketJobs[t] /\ j.asynchronousJobId = k
                 \/ rqJobs[k].func \in ASYNC_JOB_TO_CANCEL /\ rqJobs[k].ticket_id = t}

\* C18: once a run of timeout() has closed the ticket, the scheduler holds no pending
\* job tied to the ticket's job records or cancellable by name for that ticket id.
C18_NoPendingJobOnceClosed ==
  \A t \in TicketIds :
     (tickets[t].status = "Closed" /\ \E w \in Workers : ClosedInRun(w) /\ local[w].tid = t)
     => PendingFor(t, scheduler) = {}

\* the part of C18 that holds: the step that closes the ticket leaves no such job
C18_NoPendingJobAtClose ==
  [][\A w \in Workers :
       (pc[w] = "close_final" /\ pc'[w] = "done")
       => /\ tickets'[local[w].tid].status = "Closed"
          /\ PendingFor(local[w].tid, scheduler') = {}]_vars

\* the emails of run r with a template
EmailsWith(r, template) == {i \in EmailsOfRun(r) : emails[i].template = template}

\* the notifications and the tag _close_ticket owes before it closes, for the run of w
CloseNotified(w) ==
  LET t == local[w].tid
      r == local[w].run
      template == IF local[w].blocked THEN "service_blocked" ELSE "ticket_closed"
  IN /\ Cardinality(EmailsOfRun(r)) = 2
     /\ \E i \in EmailsWith(r, "case_closed") :
           emails[i].to = {contacted[t][k] : k \in DOMAIN contacted[t]}
     /\ \E i \in EmailsWith(r, template) :
           /\ emails[i].to = {DefendantEmail(local[w].ticket.defendant)}
           /\ emails[i].lang = DefendantLang(local[w].ticket.defendant)
           /\ \A k \in EmailsWith(r, "case_closed") : k < i
     /\ ExpectedTags(local[w].ticket.category) \subseteq ticketTags[t]

\* C19: every close by _close_ticket sends one 'case closed' email to the distinct
\* emails of the contacted providers and one email to the defendant, in the
\* defendant's language, with the 'service blocked' template iff service_blocked and
\* 'ticket closed' otherwise; the emails and the tag are there before the close.
C19_CloseNotifies ==
  /\ [](\A w \in Workers :
          (pc[w] = "close_final" \/ ClosedInRun(w)) => CloseNotified(w))
  /\ [][\A w \in Workers :
          (pc[w] = "close_final" /\ pc'[w] = "done")
          => /\ CloseNotified(w)
             /\ UNCHANGED <<emails, ticketTags>>
             /\ tickets'[local[w].tid].status = "Closed"]_vars

\* a close after remediation, to two providers contacted three times
C19_Witness ==
  \E w \in Workers :
     /\ ClosedInRun(w) /\ local[w].blocked
     /\ \E i \in EmailsWith(local[w].run, "case_closed") :
           Cardinality(emails[i].to) < Len(contacted[local[w].tid])

\* the last call of cancel_rq_scheduler_jobs
LastCancel(calls) == calls[Len(calls)]

\* C16: a second call of cancel_rq_scheduler_jobs for the same ticket, right after a
\* first one, changes nothing: not the ticket, not a job record, not the scheduler,
\* and it cancels nothing, whatever jobs are left without a scheduler entry.
C16_CancelIdempotent ==
  [][cancelCalls' # cancelCalls
     => /\ tickets' = tickets /\ ticketJobs' = ticketJobs
        /\ \A status \in CancelStatuses :
              LET again == CancelRqSchedulerJobs(LastCancel(cancelCalls').ticket, status,
                                                 saJobs', scheduler')
              IN /\ again.saJobs = saJobs'
                 /\ again.scheduler = scheduler'
                 /\ again.cancelled = {}]_vars

\* two calls in a row, the first one cancelling, with a pending job record of the
\* ticket whose scheduler entry was already gone
C16_Witness ==
  /\ Len(cancelCalls) = 2
  /\ cancelCalls[1].ids # {} /\ cancelCalls[2].ids = {}
  /\ \E j \in saJobs : j.id \in ticketJobs[cancelCalls[1].ticket] /\ j.status = "pending"

\* the ServiceActionJob row of id i
JobRow(jobs, i) == CHOOSE j \in jobs : j.id = i

\* C17: a call changes the status of a ServiceActionJob, to 'cancelled by <status>',
\* only if the job belongs to the ticket and its scheduler job id is in the scheduler
\* at that moment; a completed or already cancelled job keeps its status and its id
\* is not given to scheduler.cancel.
C17_CancelOnlyPending ==
  [][cancelCalls' # cancelCalls
     => LET call == LastCancel(cancelCalls')
        IN \A j \in saJobs :
              LET after == JobRow(saJobs', j.id)
              IN /\ after.status # j.status
                    => /\ j.id \in ticketJobs[call.ticket]
                       /\ j.asynchronousJobId \in scheduler
                       /\ after.status = CancelledBy(call.status)
                 /\ (j.status # "pending" \/ j.asynchronousJobId \notin scheduler)
                    => /\ after.status = j.status
                       /\ j.asynchronousJobId \notin call.ids]_vars

\* after a call that cancelled a job: a completed job and a job cancelled earlier,
\* both of the ticket, with their status kept
C17_Witness ==
  /\ cancelCalls # <<>>
  /\ \E a, b, c \in saJobs :
        /\ {a.id, b.id, c.id} \subseteq ticketJobs[cancelCalls[1].ticket]
        /\ a.status = "completed"
        /\ b.status = "cancelled by answered"
        /\ c.status = "cancelled by Closed"

\* the sweep the step runs, if it runs one
SweepRuns(name) ==
  sweepLog' # sweepLog /\ sweepLog'[Len(sweepLog')].sweep = name

\* C13: a ticket paused from WaitingAnswer with snoozeDuration D and snoozeStart T that
\* update_paused unpauses P seconds after pauseStart has snoozeDuration D + P, status
\* WaitingAnswer and snoozeStart T, for every P, a day and more included.
C13_PauseRoundTrip ==
  [][SweepRuns("update_paused")
     => \A t \in DOMAIN tickets :
           (/\ tickets[t].status = PAUSED /\ tickets[t].previousStatus = WAITING
            /\ tickets[t].snoozeDuration # NoTime /\ tickets[t].snoozeStart # NoTime
            /\ tickets'[t].status # PAUSED)
           => /\ tickets'[t].status = WAITING
              /\ tickets'[t].snoozeDuration
                   = tickets[t].snoozeDuration + (clock - tickets[t].pauseStart)
              /\ tickets'[t].snoozeStart = tickets[t].snoozeStart]_vars

\* the part of C13 that holds: the same for the pauses shorter than a day
C13_RoundTripWithinADay ==
  [][SweepRuns("update_paused")
     => \A t \in DOMAIN tickets :
           (/\ tickets[t].status = PAUSED /\ tickets[t].previousStatus = WAITING
            /\ tickets[t].snoozeDuration # NoTime /\ tickets[t].snoozeStart # NoTime
            /\ tickets'[t].status # PAUSED
            /\ clock - tickets[t].pauseStart < DaySeconds)
           => /\ tickets'[t].status = WAITING
              /\ tickets'[t].snoozeDuration
                   = tickets[t].snoozeDuration + (clock - tickets[t].pauseStart)
              /\ tickets'[t].snoozeStart = tickets[t].snoozeStart]_vars

\* the WaitingAnswer ticket is past its deadline: now > snoozeStart + snoozeDuration
PastDeadline(row, now) ==
  /\ row.status = WAITING
  /\ row.snoozeStart # NoTime
  /\ now > row.snoozeStart + row.snoozeDuration

\* the three most recent entries, newest first, are WaitingAnswer, Alarm, WaitingAnswer
SequenceMatches(history) ==
  /\ Len(history) >= 3
  /\ history[1] = WAITING /\ history[2] = ALARM /\ history[3] = WAITING

\* the ticket has an operator whose role has unassignedOnMultipleAlarm enabled
RoleEnabled(row) == row.treatedBy # None /\ users[row.treatedBy].role = "on"

\* C14: for a ticket update_waiting finds past its deadline, treatedBy is cleared and
\* escalated set iff the three most recent ChangeStatus entries, newest first, are
\* WaitingAnswer, Alarm, WaitingAnswer and the operator's role has the flag enabled;
\* with a shorter or another history, the flag disabled, or no operator, no role or no
\* configuration key, treatedBy and escalated are as they were.
C14_AutoUnassignation ==
  [][SweepRuns("update_waiting")
     => \A t \in DOMAIN tickets :
           IF /\ PastDeadline(tickets[t], clock)
              /\ SequenceMatches(ticketHistory[t])
              /\ RoleEnabled(tickets[t])
           THEN tickets'[t].treatedBy = None /\ tickets'[t].escalated
           ELSE /\ tickets'[t].treatedBy = tickets[t].treatedBy
                /\ tickets'[t].escalated = tickets[t].escalated]_vars

\* ticket 1 unassigned on a history of four entries, the sequence first
C14_Witness ==
  /\ sweepLog # <<>>
  /\ tickets[1].status = ALARM /\ tickets[1].treatedBy = None /\ tickets[1].escalated
  /\ Len(ticketHistory[1]) = 5
  /\ \E i \in DOMAIN audit : audit[i].ticket = 1 /\ audit[i].action = "change_treatedby"

\* the audit entries the step adds for ticket t
NewEntries(t, action) ==
  {i \in (Len(audit) + 1)..Len(audit') : audit'[i].ticket = t /\ audit'[i].action = action}

C20_FollowTheSunRescan ==
  [][SweepRuns("follow_the_sun")
     => /\ \A t \in DOMAIN tickets :
              LET row == tickets[t]
              IN IF /\ row.treatedBy \in Operators
                    /\ row.status \notin {"Open", "Reopened", "Paused", "Closed"}
                 THEN tickets'[t]
                        = [row EXCEPT !.alarm =
                                        (clock - users[row.treatedBy].last_login > 86400)]
                 ELSE tickets'[t] = row
        /\ FollowTheSunRows(tickets', clock') = tickets']_vars

\* two runs at the same instant: a ticket of a user away for more than a day in alarm,
\* a ticket of a user whose login is exactly a day old not in alarm
C20_Witness ==
  /\ Len(sweepLog) = 2 /\ sweepLog[1].at = 86402 /\ sweepLog[2].at = 86402
  /\ \E a, b \in DOMAIN tickets :
        /\ tickets[a].treatedBy = "op1" /\ users["op1"].last_login = 0
        /\ tickets[a].status = WAITING /\ tickets[a].alarm
        /\ tickets[b].treatedBy = "op2" /\ users["op2"].last_login = 2
        /\ tickets[b].status = ALARM /\ ~tickets[b].alarm

\* ---- the sweeps over tickets whose timer columns are partly unset
TimerPairs == {<<0, 2>>, <<NoTime, NoTime>>, <<0, NoTime>>, <<NoTime, 2>>}

TimerRows ==
  {SweepRow(WAITING, None, FALSE, FALSE, snooze, <<NoTime, NoTime>>, None) :
     snooze \in TimerPairs}
    \cup {SweepRow(PAUSED, None, FALSE, FALSE, <<NoTime, NoTime>>, pause, ALARM) :
            pause \in TimerPairs}

InitTimers ==
  /\ SweepFrame
  /\ users = UserRows("off", [u \in Operators \cup {BOT_USER} |-> 0])
  /\ tickets \in [SweepTicketIds -> TimerRows]
  /\ ticketHistory = [t \in SweepTicketIds |-> <<>>]

NextTimers == Tick \/ UpdateWaiting \/ UpdatePaused

SpecTimers == InitTimers /\ [][NextTimers]_vars

\* a timer column of the ticket the sweep selects is unset
UnsetTimer(row, status) ==
  /\ row.status = status
  /\ IF status = WAITING
     THEN row.snoozeStart = NoTime \/ row.snoozeDuration = NoTime
     ELSE row.pauseStart = NoTime \/ row.pauseDuration = NoTime

\* the ticket the sweep selects has both timer columns set and is past its deadline
DueTicket(row, status, now) ==
  /\ row.status = status
  /\ IF status = WAITING
     THEN /\ row.snoozeStart # NoTime /\ row.snoozeDuration # NoTime
          /\ now > row.snoozeStart + row.snoozeDuration
     ELSE /\ row.pauseStart # NoTime /\ row.pauseDuration # NoTime
          /\ now > row.pauseStart + row.pauseDuration

\* what C24 says of the sweep over the tickets of the given status
SweepSurvives(name, status) ==
  SweepRuns(name)
    => /\ ~sweepLog'[Len(sweepLog')].raised
       /\ \A t \in DOMAIN tickets :
             /\ UnsetTimer(tickets[t], status) => tickets'[t] = tickets[t]
             /\ DueTicket(tickets[t], status, clock) => tickets'[t].status # status

\* C24: a sweep never fails on one bad ticket: a WaitingAnswer ticket (a Paused ticket)
\* with snoozeStart or snoozeDuration (pauseStart or pauseDuration) unset is left as it
\* is, every other due ticket is still moved on, and the sweep returns without raising.
C24_SweepSurvivesBadTicket ==
  [][SweepSurvives("update_waiting", WAITING) /\ SweepSurvives("update_paused", PAUSED)]_vars

\* the part of C24 that holds: the bad ticket is never written, whatever the sweep does
C24_BadTicketLeftAsIs ==
  [][\A t \in DOMAIN tickets :
        /\ SweepRuns("update_waiting") /\ UnsetTimer(tickets[t], WAITING)
             => tickets'[t] = tickets[t]
        /\ SweepRuns("update_paused") /\ UnsetTimer(tickets[t], PAUSED)
             => tickets'[t] = tickets[t]]_vars

\* a sweep raised at ticket 1 and left the due ticket 2 in WaitingAnswer
C24_Raised ==
  /\ sweepLog # <<>> /\ sweepLog[Len(sweepLog)].raised
  /\ sweepLog[Len(sweepLog)].sweep = "update_waiting"
  /\ tickets[1].snoozeStart = 0 /\ tickets[1].snoozeDuration = NoTime
  /\ DueTicket(tickets[2], WAITING, sweepLog[Len(sweepLog)].at)

\* the Paused ticket has an active snooze to which the pause is added
SnoozeResumes(row) ==
  /\ row.previousStatus = WAITING
  /\ row.snoozeDuration # NoTime /\ row.snoozeDuration # 0
  /\ row.snoozeStart # NoTime

C29_OnlyTwoCausesOfClose ==
  \A w \in Workers :
     ClosedInRun(w)
     => \/ /\ local[w].reason = "fixed_customer"
           /\ AllDownRun(w)
           /\ ~ScheduledInRun(w)
        \/ /\ local[w].reason = "fixed"
           /\ JobSucceeded(w)
           /\ Collected(reportItems[local[w].tid]) = {rqJobs[local[w].run].ip_addr}
           /\ ~AllDownRun(w)

\* a run closed its ticket with reason 'fixed' after its job on the one address succeeded
C29_Witness ==
  \E w \in Workers :
     /\ ClosedInRun(w) /\ local[w].reason = "fixed"
     /\ JobSucceeded(w)
     /\ tickets[local[w].tid].status = "Closed"
     /\ Cardinality(Collected(reportItems[local[w].tid])) = 1

\* the scheduler job ids the ServiceActionJob rows of ticket t refer to
ReferencedBy(t) == {j.asynchronousJobId : j \in {x \in saJobs : x.id \in ticketJobs[t]}}

\* the scheduler jobs a call for ticket t has no business with
ForeignJobs(t) ==
  {k \in scheduler : /\ \/ rqJobs[k].ticket_id # t
                        \/ rqJobs[k].func \notin ASYNC_JOB_TO_CANCEL
                     /\ k \notin ReferencedBy(t)}

\* C30: a call of cancel_rq_scheduler_jobs for a ticket leaves every scheduler job of
\* another ticket, and every job whose function is not in ASYNC_JOB_TO_CANCEL, that no
\* ServiceActionJob of the ticket refers to, scheduled at the time it had; and the
\* ServiceActionJob rows that are not the ticket's keep their status.
C30_CancelTouchesOnlyItsTicket ==
  [][cancelCalls' # cancelCalls
     => LET t == LastCancel(cancelCalls').ticket
        IN /\ \A k \in ForeignJobs(t) :
                 /\ k \in scheduler'
                 /\ rqJobs'[k] = rqJobs[k]
                 /\ k \notin LastCancel(cancelCalls').ids
           /\ \A j \in saJobs : j.id \notin ticketJobs[t] => j \in saJobs']_vars

\* after a call that cancelled jobs of ticket 1: the remediation job and the timeout job
\* of ticket 2 and the job that is not cancellable are still scheduled, and the pending
\* ServiceActionJob of the other ticket is still pending
C30_Witness ==
  /\ cancelCalls # <<>> /\ cancelCalls[1].ticket = 1
  /\ {1, 4} \subseteq cancelCalls[1].ids
  /\ {3, 5, 6} \subseteq scheduler
  /\ rqJobs[3].ticket_id = 2 /\ rqJobs[3].at = 3
  /\ rqJobs[6].func \notin ASYNC_JOB_TO_CANCEL
  /\ 3 \notin ticketJobs[1]
  /\ \E j \in saJobs : j.id = 3 /\ j.status = "pending"

\* ------------------------------------- the flows of one ticket, side by side
\* the seconds a pause may last
PauseDurations == {2}

\* the pause of a ticket by an operator: the status it had is kept in previousStatus,
\* pauseStart and pauseDuration are recorded, and the snooze columns stay as they are
Pause(t, duration) ==
  /\ tickets[t].status \in {WAITING, ALARM}
  /\ tickets' = [tickets EXCEPT ![t] = [@ EXCEPT !.previousStatus = tickets[t].status,
                                                 !.status = PAUSED,
                                                 !.pauseStart = clock,
                                                 !.pauseDuration = duration]]
  /\ ticketHistory' = [ticketHistory EXCEPT ![t] = <<PAUSED>> \o @]
  /\ UNCHANGED <<ticketJobs, ticketTags, comments, saJobs, scheduler, rqJobs, emails,
                 audit, envvars, clock, users, cancelCalls, sweepLog, entryLog, rules,
                 pc, local, runs>>

\* the close of a ticket by an operator: the ticket is closed and its pending jobs are
\* cancelled; the call and the emails sent so far are noted
ManualClose(t) ==
  /\ tickets[t].status # "Closed"
  /\ \A i \in DOMAIN entryLog : entryLog[i].call # "manual_close"
  /\ LET c == CancelRqSchedulerJobs(t, "Closed", saJobs, scheduler)
     IN /\ tickets' = [tickets EXCEPT ![t] = CommonCloseTicket(@, "fixed_manually")]
        /\ saJobs' = c.saJobs
        /\ scheduler' = c.scheduler
        /\ cancelCalls' = Append(cancelCalls,
                                 [ticket |-> t, status |-> "Closed", ids |-> c.cancelled])
  /\ entryLog' = Append(entryLog, [call |-> "manual_close", id |-> t, raised |-> "",
                                   mails |-> Len(emails)])
  /\ UNCHANGED <<ticketJobs, ticketTags, comments, rqJobs, emails, audit, envvars, clock,
                 users, ticketHistory, sweepLog, rules, pc, local, runs>>

\* the status a sweep selects
SweepStatus(name) == IF name = "update_waiting" THEN WAITING ELSE PAUSED

\* now = int(time()); for ticket in Ticket.objects.filter(status=...): the worker holds
\* the row as the query returned it. Without a row the sweep is over.
Sweep_Fetch(w, name, t) ==
  /\ pc[w] \in {"idle", "done"}
  /\ Len(sweepLog) < MaxSweeps
  /\ IF tickets[t].status = SweepStatus(name)
     THEN /\ local' = [local EXCEPT ![w] = [EmptyLocal EXCEPT !.tid = t, !.now = clock,
                                                              !.ticket = tickets[t]]]
          /\ Goto(w, name)
          /\ UNCHANGED sweepLog
     ELSE /\ sweepLog' = Append(sweepLog, [sweep |-> name, at |-> clock,
                                           raised |-> FALSE])
          /\ UNCHANGED <<pc, local>>
  /\ UNCHANGED <<dbvars, envvars, clock, users, ticketHistory, cancelCalls, entryLog,
                 rules, runs>>

\* the body of the loop on the row the worker holds: set_ticket_status and ticket.save()
\* write the whole row as the worker has it
Sweep_Body(w) ==
  /\ pc[w] \in {"update_waiting", "update_paused"}
  /\ LET t == local[w].tid
         r == IF pc[w] = "update_waiting"
              THEN UpdateWaitingTicket(t, local[w].ticket, ticketHistory[t], local[w].now)
              ELSE UpdatePausedTicket(t, local[w].ticket, ticketHistory[t], local[w].now)
     IN /\ tickets' = IF r.row # local[w].ticket
                      THEN [tickets EXCEPT ![t] = r.row]
                      ELSE tickets
        /\ ticketHistory' = [ticketHistory EXCEPT ![t] = r.history]
        /\ audit' = audit \o r.log
        /\ sweepLog' = Append(sweepLog, [sweep |-> pc[w], at |-> local[w].now,
                                         raised |-> r.raised])
  /\ Goto(w, "idle")
  /\ UNCHANGED <<ticketJobs, ticketTags, comments, saJobs, scheduler, rqJobs, emails,
                 envvars, clock, users, cancelCalls, entryLog, rules, local, runs>>

\* what the flows of one ticket start from, its row and its reports left open
LifecycleFrame ==
  /\ saJobs = {}
  /\ ticketJobs = [t \in TicketIds |-> {}]
  /\ ticketTags = [t \in TicketIds |-> {}]
  /\ comments = <<>>
  /\ scheduler = {}
  /\ rqJobs = <<>>
  /\ emails = <<>>
  /\ audit = <<>>
  /\ contacted \in [TicketIds -> ContactedConfigs]
  /\ itemsDown = [t \in TicketIds |-> FALSE]
  /\ policy = "block"
  /\ pc = [w \in Workers |-> "idle"]
  /\ local = [w \in Workers |-> EmptyLocal]
  /\ runs = 0
  /\ users = UserRows("off", [u \in Operators \cup {BOT_USER} |-> 0])
  /\ ticketHistory = [t \in TicketIds |-> <<>>]
  /\ cancelCalls = <<>>
  /\ sweepLog = <<>>
  /\ entryLog = <<>>

\* the reports of the ticket: none, or one with one address
LifecycleReports == { <<>>, << {Item("IP", "A", None)} >> }

\* a ticket that passes the gate of timeout() and is due for its sweep: WaitingAnswer
\* past its snooze, or Paused past its pause
InitStale ==
  /\ LifecycleFrame
  /\ rules = <<>>
  /\ clock = 3
  /\ reportItems \in [TicketIds -> LifecycleReports]
  /\ tickets \in [TicketIds ->
        {SweepRow(WAITING, None, FALSE, FALSE, <<0, 2>>, <<NoTime, NoTime>>, None),
         SweepRow(PAUSED, None, FALSE, FALSE, <<NoTime, NoTime>>, <<0, 2>>, ALARM)}]

\* one worker runs the timeout jobs, the other the sweeps, and an operator may close
NextStale ==
  \/ \E t \in TicketIds : ManualClose(t)
  \/ \E t \in TicketIds, name \in {"update_waiting", "update_paused"} :
        Sweep_Fetch("w2", name, t)
  \/ Sweep_Body("w2")
  \/ \E t \in TicketIds : Timeout_Start("w1", t)
  \/ WorkerStep("w1")
  \/ RqStep

SpecStale == InitStale /\ [][NextStale]_vars

\* a WaitingAnswer ticket with its snooze running and no pause
InitPauses ==
  /\ LifecycleFrame
  /\ rules = <<>>
  /\ clock = 0
  /\ reportItems \in [TicketIds -> LifecycleReports]
  /\ tickets = [t \in TicketIds |->
                  SweepRow(WAITING, None, FALSE, FALSE, <<0, 2>>, <<NoTime, NoTime>>, None)]

\* pauses, the two sweeps and the timeout jobs of one worker, as time passes
NextPauses ==
  \/ Tick
  \/ \E t \in TicketIds, d \in PauseDurations : Pause(t, d)
  \/ UpdateWaiting
  \/ UpdatePaused
  \/ \E t \in TicketIds : Timeout_Start("w1", t)
  \/ WorkerStep("w1")
  \/ RqStep

SpecPauses == InitPauses /\ [][NextPauses]_vars

\* the manual closes noted so far
ManualCloses == {i \in DOMAIN entryLog : entryLog[i].call = "manual_close"}

\* a manually closed ticket is still Closed, with the resolution the operator gave
C22_StaysClosed ==
  \A i \in ManualCloses :
     /\ tickets[entryLog[i].id].status = "Closed"
     /\ tickets[entryLog[i].id].resolution = "fixed_manually"

\* no email left for a ticket after its manual close
C22_NotNotifiedAgain ==
  \A i \in ManualCloses : Len(emails) = entryLog[i].mails

\* C22: under any interleaving of a sweep or of timeout() with a manual close, a flow
\* that read the ticket before the close never moves it out of Closed, and timeout()
\* does not close it or notify about it a second time.
C22_StaleWritesTolerated == C22_StaysClosed /\ C22_NotNotifiedAgain

\* the snooze timer of the row is set
SnoozeActive(row) == row.snoozeStart # NoTime /\ row.snoozeDuration # NoTime

\* the pause timer of the row is set
PauseActive(row) == row.pauseStart # NoTime /\ row.pauseDuration # NoTime

C23_NoTimer ==
  \E t \in DOMAIN tickets :
     /\ tickets[t].status = ALARM
     /\ ~SnoozeActive(tickets[t]) /\ ~PauseActive(tickets[t])

NotFoundIds == {9, NoTime}

\* 'Ticket %d cannot be found in DB. Skipping...' % (value): formatting None with %d
\* raises TypeError
FormatD(value) == IF value = NoTime THEN "TypeError" ELSE ""

\* the same message built from the local `ticket`, which the failed lookup never bound
FormatUnbound == "UnboundLocalError"

\* the number of calls of the entry points followed
MaxCalls == 2

\* what a call that changes no table leaves alone
NoTableChange ==
  UNCHANGED <<dbvars, envvars, clock, users, ticketHistory, cancelCalls, sweepLog, rules,
              pc, local, runs>>

\* timeout(ticket_id) for an id without a row: the handler logs and returns
Timeout_NotFound(id) ==
  /\ Len(entryLog) < MaxCalls
  /\ id \notin DOMAIN tickets
  /\ entryLog' = Append(entryLog, [call |-> "timeout", id |-> id, raised |-> FormatD(id)])
  /\ NoTableChange

\* cancel_rq_scheduler_jobs(ticket_id, status) for an id without a row
Cancel_NotFound(id, status) ==
  /\ Len(entryLog) < MaxCalls
  /\ id \notin DOMAIN tickets
  /\ entryLog' = Append(entryLog, [call |-> "cancel_rq_scheduler_jobs", id |-> id,
                                   raised |-> FormatUnbound])
  /\ NoTableChange

\* close_emails_thread(ticket_id): the thread of a ticket that exists is closed by the
\* mailer; for an id without a row the handler runs
CloseEmailsThread(id) ==
  /\ Len(entryLog) < MaxCalls
  /\ entryLog' = Append(entryLog, [call |-> "close_emails_thread", id |-> id,
                                   raised |-> IF id \in DOMAIN tickets THEN ""
                                              ELSE FormatUnbound])
  /\ NoTableChange

\* timedelta(days=7), in seconds
Horizon == 7 * DaySeconds

\* utils.scheduler.get_jobs(until=timedelta(days=7), with_times=True): the jobs due
\* within seven days from now
PendingJobs(now) == {k \in scheduler : rqJobs[k].at <= now + Horizon}

\* the loop of delay_jobs over ticket.jobs.all(): the job records after it
DelayedTimes(t, delay, back, now) ==
  [k \in DOMAIN rqJobs |->
     IF /\ k \in PendingJobs(now)
        /\ \E j \in saJobs : j.id \in ticketJobs[t] /\ j.asynchronousJobId = k
     THEN [rqJobs[k] EXCEPT !.at = IF back THEN @ - delay ELSE @ + delay]
     ELSE rqJobs[k]]

\* delay_jobs(ticket, delay, back): without a delay it returns at once; without a row
\* for the id the handler runs; else the pending jobs of the ticket are rescheduled
DelayJobs(id, delay, back) ==
  /\ Len(entryLog) < MaxCalls
  /\ LET missing == delay = NoTime \/ delay = 0
         found == id \in DOMAIN tickets
     IN /\ rqJobs' = IF ~missing /\ found THEN DelayedTimes(id, delay, back, clock)
                     ELSE rqJobs
        /\ entryLog' = Append(entryLog,
                              [call |-> "delay_jobs", id |-> id, delay |-> delay,
                               back |-> back,
                               raised |-> IF missing \/ found THEN "" ELSE FormatD(id),
                               times |-> [k \in DOMAIN rqJobs |-> rqJobs[k].at]])
  /\ UNCHANGED <<tickets, ticketJobs, ticketTags, comments, saJobs, scheduler, emails,
                 audit, envvars, clock, users, ticketHistory, cancelCalls, sweepLog, rules,
                 pc, local, runs>>

\* ---- the entry points over a small scheduler
\* the rq jobs the scheduler may hold: two remediation jobs of ticket 1, one of them
\* close to the seven days, one of another ticket, and the timeout job of ticket 1
DelayRqJobs ==
  LET J(f, t, at) == [func |-> f, ticket_id |-> t, action_id |-> "block",
                      ip_addr |-> "A", user_id |-> BOT_USER, status |-> "scheduled",
                      result |-> FALSE, at |-> at]
  IN << J("action.apply_action", 1, 10), J("action.apply_action", 1, 604000),
        J("action.apply_action", 2, 10), J("ticket.timeout", 1, 10) >>

\* the delays given to delay_jobs: None, zero, and a quarter of an hour
Delays == {NoTime, 0, 900}

InitEntry ==
  /\ tickets = [t \in TicketIds |->
                  [defendant |-> "d1", service |-> "s1", status |-> PAUSED,
                   category |-> "Illegal", treatedBy |-> None, action |-> "block",
                   resolution |-> None]]
  /\ rqJobs = DelayRqJobs
  /\ scheduler \in SUBSET DOMAIN DelayRqJobs
  /\ saJobs = {[id |-> j, ip |-> "A", action |-> "block", asynchronousJobId |-> j,
                status |-> "pending"] : j \in CancelJobIds}
  /\ ticketJobs \in [TicketIds -> SUBSET CancelJobIds]
  /\ ticketTags = [t \in TicketIds |-> {}]
  /\ comments = <<>>
  /\ emails = <<>>
  /\ audit = <<>>
  /\ reportItems = [t \in TicketIds |-> <<>>]
  /\ contacted \in [TicketIds -> ContactedConfigs]
  /\ itemsDown = [t \in TicketIds |-> FALSE]
  /\ policy = "block"
  /\ pc = [w \in Workers |-> "idle"]
  /\ local = [w \in Workers |-> EmptyLocal]
  /\ runs = 0
  /\ NoSweepState

NextEntry ==
  \/ \E id \in NotFoundIds : Timeout_NotFound(id)
  \/ \E id \in NotFoundIds, status \in CancelStatuses : Cancel_NotFound(id, status)
  \/ \E id \in TicketIds \cup NotFoundIds : CloseEmailsThread(id)
  \/ \E id \in TicketIds \cup NotFoundIds, delay \in Delays, back \in BOOLEAN :
        DelayJobs(id, delay, back)

SpecEntry == InitEntry /\ [][NextEntry]_vars

\* the call the step makes, if it makes one
LastCall == entryLog'[Len(entryLog')]

\* the calls made for an id without a row
NotFoundCalls == {i \in DOMAIN entryLog : entryLog[i].id \notin DOMAIN tickets}

\* C21: given a ticket id that is not found, a missing or None id included, timeout,
\* cancel_rq_scheduler_jobs, close_emails_thread and delay_jobs each log, abort and
\* return normally: no exception surfaces, and no state is changed.
C21_NotFoundReturnsNormally ==
  /\ [](\A i \in NotFoundCalls : entryLog[i].raised = "")
  /\ [][(entryLog' # entryLog /\ LastCall.id \notin DOMAIN tickets)
          => UNCHANGED <<dbvars, envvars>>]_vars

\* the part of C21 that holds: a call for an id without a row changes no table, and
\* timeout and delay_jobs return normally when the id is an integer
C21_NotFoundChangesNothing ==
  /\ [][(entryLog' # entryLog /\ LastCall.id \notin DOMAIN tickets)
          => UNCHANGED <<dbvars, envvars>>]_vars
  /\ [](\A i \in NotFoundCalls :
          (entryLog[i].call \in {"timeout", "delay_jobs"} /\ entryLog[i].id # NoTime)
          => entryLog[i].raised = "")

\* cancel_rq_scheduler_jobs raised on an integer id without a row
C21_Raised ==
  \E i \in NotFoundCalls :
     /\ entryLog[i].call = "cancel_rq_scheduler_jobs" /\ entryLog[i].id = 9
     /\ entryLog[i].raised = "UnboundLocalError"

\* the step is a call of delay_jobs for a ticket that exists, with a delay
DelayCall ==
  /\ entryLog' # entryLog
  /\ LastCall.call = "delay_jobs"
  /\ LastCall.id \in DOMAIN tickets
  /\ LastCall.delay # NoTime /\ LastCall.delay # 0

\* the scheduler jobs of ticket t, through its ServiceActionJob rows, due within the
\* seven days
ShiftedJobs(t) == {k \in ReferencedBy(t) \cap scheduler : rqJobs[k].at <= clock + Horizon}

\* the first part of C27: a call shifts every pending job of the ticket within the
\* seven days by exactly the delay, earlier if back and later if not, and changes
\* nothing else; without a delay, or with a zero delay, nothing is rescheduled
C27_ShiftsByDelay ==
  [][(entryLog' # entryLog /\ LastCall.call = "delay_jobs")
       => /\ UNCHANGED <<tickets, ticketJobs, saJobs, scheduler>>
          /\ DOMAIN rqJobs' = DOMAIN rqJobs
          /\ \A k \in DOMAIN rqJobs :
                IF DelayCall /\ k \in ShiftedJobs(LastCall.id)
                THEN rqJobs'[k] = [rqJobs[k] EXCEPT !.at =
                                     IF LastCall.back THEN @ - LastCall.delay
                                     ELSE @ + LastCall.delay]
                ELSE rqJobs'[k] = rqJobs[k]]_vars

\* the step is a call with back=True right after a call with back=False for the same
\* ticket and the same delay
BackAfterForth ==
  /\ DelayCall /\ LastCall.back
  /\ Len(entryLog) >= 1
  /\ LET first == entryLog[Len(entryLog)]
     IN /\ first.call = "delay_jobs" /\ first.id = LastCall.id
        /\ first.delay = LastCall.delay /\ ~first.back

\* the second part of C27: delay_jobs(back=False) followed by delay_jobs(back=True) with
\* the same delay restores every original execution time
C27_RoundTrip ==
  [][BackAfterForth
       => \A k \in DOMAIN rqJobs : rqJobs'[k].at = entryLog[Len(entryLog)].times[k]]_vars

\* C27: delay_jobs shifts every pending job of the ticket within the seven days by
\* exactly the delay and changes nothing else, reschedules nothing without a delay,
\* and a call with back=False followed by one with back=True and the same delay
\* restores every original execution time.
C27_DelayJobsShiftAndRestore == C27_ShiftsByDelay /\ C27_RoundTrip

\* a job of ticket 1 pushed past the seven days by the first call and left there by
\* the second
C27_NotRestored ==
  /\ Len(entryLog) = 2
  /\ entryLog[1].call = "delay_jobs" /\ entryLog[2].call = "delay_jobs"
  /\ entryLog[1].id = 1 /\ entryLog[2].id = 1
  /\ entryLog[1].delay = 900 /\ entryLog[2].delay = 900
  /\ ~entryLog[1].back /\ entryLog[2].back
  /\ entryLog[1].times[2] = 604000 /\ rqJobs[2].at = 604900
  /\ entryLog[1].times[1] = 10 /\ rqJobs[1].at = 10
  /\ {1, 2} \subseteq scheduler /\ {1, 2} \subseteq ticketJobs[1]

\* ------------------------------------------------------------ the rule engine
\* a leaf predicate {name, operator, value} and a node {all: [...]} or {any: [...]}
Leaf(name) == [kind |-> "leaf", name |-> name, children |-> <<>>]
RuleNode(kind, children) == [kind |-> kind, name |-> "", children |-> children]

\* the variables the conditions name
RuleNames == {"all_items_phishing", "urls_down", "has_urls", "report_trusted"}

\* ReportVariables(None, report, None, is_trusted): the value of the leaf predicate on
\* the named variable; the provider answers for the trust of the report itself
VariableHolds(name, values, is_trusted) ==
  IF name = "report_trusted" THEN is_trusted ELSE values[name]

RECURSIVE MutCheckConditionsEmptyAllFalse(_, _, _)
MutCheckConditionsEmptyAllFalse(node, values, is_trusted) ==
  IF node.kind = "leaf" THEN VariableHolds(node.name, values, is_trusted)
  ELSE IF node.kind = "all"
  THEN /\ node.children # <<>>
       /\ \A i \in DOMAIN node.children :
             MutCheckConditionsEmptyAllFalse(node.children[i], values, is_trusted)
  ELSE \E i \in DOMAIN node.children :
          MutCheckConditionsEmptyAllFalse(node.children[i], values, is_trusted)

RECURSIVE CheckConditions(_, _, _)
\* the engine on a condition tree: `all` holds when no child fails, `any` when a child
\* holds, so that an empty `all` is true and an empty `any` is false
CheckConditions(node, values, is_trusted) ==
  IF node.kind = "leaf" THEN VariableHolds(node.name, values, is_trusted)
  ELSE IF node.kind = "all"
  THEN \A i \in DOMAIN node.children :
          CheckConditions(node.children[i], values, is_trusted)
  ELSE \E i \in DOMAIN node.children :
          CheckConditions(node.children[i], values, is_trusted)

\* run(config, defined_variables, defined_actions): true iff the conditions hold
Run(conditions, values, is_trusted) == CheckConditions(conditions, values, is_trusted)

\* the number of evaluations of a rule followed
MaxEvaluations == 1

\* one evaluation of a rule by the engine
RunRule(tree) ==
  /\ Len(entryLog) < MaxEvaluations
  /\ entryLog' = Append(entryLog,
                        [call |-> "run", id |-> 1, raised |-> "", tree |-> tree,
                         applied |-> Run(tree, rules.values, FALSE)])
  /\ NoTableChange

\* ------------------------------------------ create_ticket_from_phishtocheck
RemovedConditions == {"all_items_phishing", "urls_down"}

MutPhishConditionsKeepsUrlsDown(all) ==
  SelectSeq(all, LAMBDA cond : cond.name # "all_items_phishing")

\* the loop over config['conditions']['all']: the conditions kept, in their order
PhishConditions(all) == SelectSeq(all, LAMBDA cond : cond.name \notin RemovedConditions)

\* cond['name'] on a condition that is a nested node raises KeyError
HasNoName(all) == \E i \in DOMAIN all : all[i].kind # "leaf"

\* create_ticket_from_phishtocheck(report, user) for a report of ticket t
CreateTicketFromPhishtocheck(t) ==
  /\ Len(entryLog) < MaxEvaluations
  /\ IF HasNoName(rules.all)
     THEN /\ entryLog' = Append(entryLog,
                                [call |-> "create_ticket_from_phishtocheck", id |-> t,
                                 raised |-> "KeyError", evaluated |-> <<>>,
                                 trusted |-> TRUE, applied |-> FALSE])
          /\ UNCHANGED audit
     ELSE LET conditions == PhishConditions(rules.all)
              rule_applied == Run(RuleNode("all", conditions), rules.values, TRUE)
          IN /\ entryLog' = Append(entryLog,
                                   [call |-> "create_ticket_from_phishtocheck", id |-> t,
                                    raised |-> IF rule_applied THEN ""
                                               ELSE "AssertionError",
                                    evaluated |-> conditions, trusted |-> TRUE,
                                    applied |-> rule_applied])
             /\ audit' = IF rule_applied
                         THEN Append(audit, [ticket |-> t,
                                             action |-> "validate_phishtocheck",
                                             run |-> 0])
                         ELSE audit
  /\ UNCHANGED <<tickets, ticketJobs, ticketTags, comments, saJobs, scheduler, rqJobs,
                 emails, envvars, clock, users, ticketHistory, cancelCalls, sweepLog,
                 rules, pc, local, runs>>

\* ---- the engine and the requalification over small rules: the report fails the two
\* conditions the requalification removes
\* the longest list of conditions
MaxConditions == 2

\* the lists of up to n elements of S
ListsUpTo(S, n) == UNION {[1..k -> S] : k \in 0..n}

\* the trees given to the engine: a node over leaves and empty nodes
RuleTrees ==
  {RuleNode(kind, children) :
     kind \in {"all", "any"},
     children \in ListsUpTo({Leaf("has_urls"), RuleNode("all", <<>>),
                             RuleNode("any", <<>>)}, MaxConditions)}

\* the top-level `all` lists of the 'phishing_up' rule
PhishingUpConfigs ==
  ListsUpTo({Leaf(n) : n \in RuleNames} \cup {RuleNode("any", <<>>)}, MaxConditions)

InitRules ==
  /\ LifecycleFrame
  /\ clock = 0
  /\ reportItems = [t \in TicketIds |-> <<>>]
  /\ tickets = [t \in TicketIds |->
                  SweepRow("Open", None, FALSE, FALSE, <<NoTime, NoTime>>,
                           <<NoTime, NoTime>>, None)]
  /\ \E all \in PhishingUpConfigs, has_urls \in BOOLEAN :
        rules = [all |-> all,
                 values |-> [n \in RuleNames \ {"report_trusted"} |->
                               n = "has_urls" /\ has_urls]]

NextRules ==
  \/ \E tree \in RuleTrees : RunRule(tree)
  \/ \E t \in TicketIds : CreateTicketFromPhishtocheck(t)

SpecRules == InitRules /\ [][NextRules]_vars

\* the evaluations of a tree by the engine so far
Evaluations == {i \in DOMAIN entryLog : entryLog[i].call = "run"}

\* the requalifications so far
Requalifications ==
  {i \in DOMAIN entryLog : entryLog[i].call = "create_ticket_from_phishtocheck"}

\* C25: the engine returns true on an empty `all` and false on an empty `any`, at the
\* top of a rule and below it; so a requalification whose filtered `all` list is empty
\* finds the rule applied.
C25_EmptyAllTrueEmptyAnyFalse ==
  /\ \A i \in Evaluations :
        LET tree == entryLog[i].tree
        IN /\ tree = RuleNode("all", <<>>) => entryLog[i].applied
           /\ tree = RuleNode("any", <<>>) => ~entryLog[i].applied
           /\ (tree.kind = "all" /\ \E k \in DOMAIN tree.children :
                                      tree.children[k] = RuleNode("any", <<>>))
                => ~entryLog[i].applied
           /\ (tree.kind = "any" /\ \E k \in DOMAIN tree.children :
                                      tree.children[k] = RuleNode("all", <<>>))
                => entryLog[i].applied
  /\ \A i \in Requalifications :
        (entryLog[i].raised # "KeyError" /\ entryLog[i].evaluated = <<>>)
        => entryLog[i].applied /\ entryLog[i].raised = ""

\* a rule whose conditions were all removed was found applied and the validation logged
C25_Witness ==
  /\ \E i \in Requalifications :
        /\ entryLog[i].evaluated = <<>> /\ entryLog[i].applied
        /\ Len(rules.all) = 2
  /\ \E k \in DOMAIN audit : audit[k].action = "validate_phishtocheck"

\* the engine was given an empty `any` and answered false
C25_EmptyAnySeen ==
  \E i \in Evaluations : entryLog[i].tree = RuleNode("any", <<>>) /\ ~entryLog[i].applied

\* the places of the top-level list whose condition is not one of the two removed
KeptPlaces(all) == {i \in DOMAIN all : all[i].name \notin RemovedConditions}

\* the list holds the conditions of the kept places, in their order
KeepsOthersInOrder(evaluated, all) ==
  /\ Len(evaluated) = Cardinality(KeptPlaces(all))
  /\ \A i \in KeptPlaces(all) :
        evaluated[Cardinality({j \in KeptPlaces(all) : j <= i})] = all[i]

C28_NotApplied ==
  /\ \E i \in Requalifications :
        entryLog[i].raised = "AssertionError" /\ entryLog[i].evaluated # <<>>
  /\ audit = <<>>

====
